---- MODULE Spec2Model ----
(***************************************************************************)
(* Triage rule store of cortex-utils: the rule chains kept as doubly       *)
(* linked lists in triage_rules (linked_list.py) and the configuration     *)
(* versions written by import_yaml_to_db (importer.py).                    *)
(*                                                                         *)
(* The database is modelled at READ COMMITTED: every statement reads the   *)
(* committed rows, the writes of a transaction are kept in a per-client    *)
(* write log that is applied at commit and dropped at rollback, and        *)
(* SELECT ... FOR UPDATE takes row locks that are held until the           *)
(* transaction ends.  Serial columns hand out ids that are never reused.   *)
(***************************************************************************)
EXTENDS Integers, Sequences, FiniteSets, TLC

NULL == 0

(* ------------------------------ bounds --------------------------------- *)
\* rules of the main chain in the store the sequential specification starts from
ListLen == 2
\* rules of the main chain in the store the concurrent specifications start from
ConcLen == 4
\* transactions the client may run in the sequential list specification
\* (insert_rule_after and delete_rule are one, move_rule is two)
MaxOps == 2
\* imports the client may start in the sequential import specification
MaxImports == 3
\* imports each of the two clients may start in the concurrent import specification
ConcImports == 1

Clients == {1, 2}
Max(a, b) == IF a >= b THEN a ELSE b
Contents == {"x", "y"}

(* ---------------------------- documents -------------------------------- *)
\* A document is its text (the hash input) and what the text holds: the
\* chains with their rules, and the two address maps as the entries of the
\* yaml mapping in document order, keyed by the address as it is written.
\* A rule is its match condition (content) and its outcome: a jump to the
\* chain j, or an action when no jump is given.  A document may also have
\* the keys label_prefix, intents, email_categories, prompts and
\* body_extraction_prompts (the names it defines under each).
DocRule(c, j) == [content |-> c, action |-> IF j = "" THEN "act" ELSE "", jump |-> j]

\* the value of an optional boolean: "true", "false", or "none" when absent
TriState == {"true", "false", "none"}
MapEntry(e, l, a, m) == [email |-> e, label |-> l, archive |-> a, mark_read |-> m]

\* a main chain of n rules and a second chain of one rule
ListDoc(n) ==
    [text |-> 1,
     chains |-> << [name |-> "main",
                    rules |-> [i \in 1 .. n |->
                                  DocRule(IF i % 2 = 1 THEN "x" ELSE "y", "")]],
                   [name |-> "aux", rules |-> << DocRule("y", "") >>] >>,
     priority |-> << MapEntry("a@x", "L", "none", "none") >>,
     fallback |-> << >>]

DocB ==
    [text |-> 2,
     chains |-> << [name |-> "main", rules |-> << DocRule("x", "aux") >>],
                   [name |-> "aux", rules |-> << DocRule("y", "") >>] >>,
     priority |-> << MapEntry("a@x", "P", "none", "true") >>,
     fallback |-> << MapEntry("b@x", "F", "false", "none") >>]

\* the first rule of its main chain defines the variable of its label, the
\* second returns to the parent chain; the document has its own label
\* prefix, an intent, a category and a prompt
DocC ==
    [text |-> 3,
     label_prefix |-> "Mail",
     intents |-> {"mine"},
     email_categories |-> {"news"},
     prompts |-> {"v2"},
     chains |-> << [name |-> "main",
                    rules |-> << [content |-> "y", action |-> "act", jump |-> "",
                                  label |-> << "{", "a", "}" >>, variables |-> {"a"},
                                  subject_intent |-> "mine"],
                                 [content |-> "x", action |-> "", jump |-> "",
                                  return_to_parent |-> "true"] >>] >>,
     priority |-> << >>,
     fallback |-> << >>]

\* the address of its fallback map is written in upper case with a trailing
\* blank; lower-cased and trimmed it is the priority address of DocB
DocD ==
    [text |-> 6,
     chains |-> << [name |-> "main", rules |-> << DocRule("x", "") >>] >>,
     priority |-> << >>,
     fallback |-> << MapEntry("A@x ", "G", "true", "none") >>]

\* parses, but has no main chain
DocNoMain ==
    [text |-> 4,
     chains |-> << [name |-> "aux", rules |-> << DocRule("x", "") >>] >>,
     priority |-> << MapEntry("a@x", "L", "none", "none") >>,
     fallback |-> << >>]

\* parses, but jumps to a chain that is not defined
DocBadJump ==
    [text |-> 5,
     chains |-> << [name |-> "main", rules |-> << DocRule("x", "nowhere") >>] >>,
     priority |-> << >>,
     fallback |-> << >>]

\* parses and validates: the rule of main has an llm outcome and a route
DocRoutes ==
    [text |-> 8,
     chains |-> << [name |-> "main",
                    rules |-> << [content |-> "x", action |-> "", jump |-> "",
                                  llm |-> TRUE,
                                  routes |-> << [key |-> "k", label |-> << "L" >>] >>] >>] >>,
     priority |-> << >>,
     fallback |-> << >>]

\* does not parse: one address, up to case and blanks, in both maps
DocOverlap ==
    [text |-> 7,
     chains |-> << [name |-> "main", rules |-> << DocRule("x", "") >>] >>,
     priority |-> << MapEntry("a@x", "P", "none", "none") >>,
     fallback |-> << MapEntry("A@x ", "F", "none", "none") >>]

ValidDocs == {DocB, DocC, DocD}
InvalidDocs == {DocNoMain, DocBadJump}
UnparsableDocs == {DocOverlap}
\* pass validate_rules, but a rule of theirs cannot be written
UnstorableDocs == {DocRoutes}

(* ------------------------ load_rules_from_string ----------------------- *)
\* str.lower() and str.strip() on the addresses the documents use
Lower(e) == IF e = "A@x " THEN "a@x " ELSE e
Strip(e) ==
    CASE e = "a@x " -> "a@x" [] e = "A@x " -> "A@x" [] e = " " -> "" [] OTHER -> e

\* normalized[key] = action on a dict: a key that is present keeps its place
PutEntry(d, e) ==
    IF \E i \in DOMAIN d : d[i].email = e.email
    THEN [i \in DOMAIN d |-> IF d[i].email = e.email THEN e ELSE d[i]]
    ELSE Append(d, e)

\* importer.py 65-95: the entries under their lower-cased, trimmed address
RECURSIVE load_email_mappings(_, _)
load_email_mappings(ms, normalized) ==
    IF ms = << >> THEN [err |-> "", map |-> normalized]
    ELSE IF Head(ms).email = "" \/ Strip(Head(ms).email) = ""
         THEN [err |-> "empty_address", map |-> << >>]
         ELSE load_email_mappings(Tail(ms),
                  PutEntry(normalized,
                           [Head(ms) EXCEPT !.email = Strip(Lower(Head(ms).email))]))

EmailsOf(m) == {m[i].email : i \in DOMAIN m}

\* importer.py 98-116: the addresses that are in both maps
validate_no_duplicate_mappings(priority_mappings, fallback_mappings) ==
    EmailsOf(priority_mappings) \cap EmailsOf(fallback_mappings)

NoConfig(err) == [err |-> err, chains |-> << >>, priority |-> << >>, fallback |-> << >>]

\* models.py 451 and 487: the names of the built-in prompts
BUILTIN_PROMPTS == {"v1"}
BUILTIN_BODY_EXTRACTION_PROMPTS == {"apple_merchant_v1"}
\* models.py 607: label_prefix of a document that does not give one
LabelPrefixDefault == "Cortex"

\* the value of a key of a yaml mapping, or the default of the field when
\* the document does not have the key
Opt(r, k, default) == IF k \in DOMAIN r THEN r[k] ELSE default

\* importer.py 30-52: the names of the built-in intents
BUILTIN_INTENTS == {"archive_request", "todo_request", "question"}

\* A rule of a document always has its match condition (content), action
\* ("" when absent) and jump ("" when absent).  It may also have the keys
\* return_to_parent (a TriState), llm (TRUE when the key is given), extract
\* (the names under llm.extract), routes (the sequence of its entries, each
\* a route key with the label of its action), label (the label of the
\* action), variables (the names it defines), subject_intent and
\* email_intent (an intent name, or InlineIntent for an inline definition).
\* A label is the sequence of its pieces: "{", "}", "/" and words.
InlineIntent == "<IntentConfig>"
Route(k, label) == [key |-> k, label |-> label]

\* variant: a rule with an llm outcome needs no routes
check_exclusive_outcomes_NoRoutes(rule) ==
    LET outcomes_defined ==
            (IF rule.action # "" THEN 1 ELSE 0)
            + (IF rule.jump # "" THEN 1 ELSE 0)
            + (IF Opt(rule, "return_to_parent", "none") = "true" THEN 1 ELSE 0)
            + (IF Opt(rule, "llm", FALSE) THEN 1 ELSE 0)
    IN outcomes_defined = 1

\* models.py 573-600: a rule has exactly one outcome, and an llm outcome
\* has routes
check_exclusive_outcomes(rule) ==
    LET outcomes_defined ==
            (IF rule.action # "" THEN 1 ELSE 0)
            + (IF rule.jump # "" THEN 1 ELSE 0)
            + (IF Opt(rule, "return_to_parent", "none") = "true" THEN 1 ELSE 0)
            + (IF Opt(rule, "llm", FALSE) THEN 1 ELSE 0)
    IN /\ outcomes_defined # 0
       /\ ~(outcomes_defined > 1)
       /\ ~(Opt(rule, "llm", FALSE) /\ Opt(rule, "routes", << >>) = << >>)

\* models.py 562-571: match, variables, action, llm and routes of a rule are
\* mappings (all but match may be absent); a str or, for match, None in
\* their place does not validate
FieldsValid(rule) == "strings" \notin DOMAIN rule /\ "match_null" \notin DOMAIN rule

\* importer.py 176: every rule of every chain is constructed
RulesValid(doc) ==
    \A i \in DOMAIN doc.chains :
        \A j \in DOMAIN doc.chains[i].rules :
            /\ FieldsValid(doc.chains[i].rules[j])
            /\ check_exclusive_outcomes(doc.chains[i].rules[j])

\* variant: the two maps are not compared
load_rules_from_string_NoDupCheck(doc) ==
    LET pm == load_email_mappings(doc.priority, << >>)
        fm == load_email_mappings(doc.fallback, << >>)
    IN IF pm.err # "" THEN NoConfig(pm.err)
       ELSE IF fm.err # "" THEN NoConfig(fm.err)
       ELSE IF ~RulesValid(doc) THEN NoConfig("invalid_rule")
       ELSE [err |-> "", version |-> Opt(doc, "version", 1),
             chains |-> doc.chains, priority |-> pm.map, fallback |-> fm.map,
             label_prefix |-> Opt(doc, "label_prefix", LabelPrefixDefault),
             intents |-> BUILTIN_INTENTS \cup Opt(doc, "intents", {}),
             email_categories |-> Opt(doc, "email_categories", {}),
             prompts |-> BUILTIN_PROMPTS \cup Opt(doc, "prompts", {}),
             body_extraction_prompts |->
                 Opt(doc, "body_extraction_prompts", BUILTIN_BODY_EXTRACTION_PROMPTS)]

\* importer.py 119-176: the RulesConfig of a document, or the ValueError;
\* the intents and the prompts of the document are merged into the built-in
\* ones, the other keys have the defaults of models.py 605-617
load_rules_from_string(doc) ==
    LET pm == load_email_mappings(doc.priority, << >>)
        fm == load_email_mappings(doc.fallback, << >>)
    IN IF pm.err # "" THEN NoConfig(pm.err)
       ELSE IF fm.err # "" THEN NoConfig(fm.err)
       ELSE IF validate_no_duplicate_mappings(pm.map, fm.map) # {}
            THEN NoConfig("duplicate_addresses")
       ELSE IF ~RulesValid(doc) THEN NoConfig("invalid_rule")
       ELSE [err |-> "", version |-> Opt(doc, "version", 1),
             chains |-> doc.chains, priority |-> pm.map, fallback |-> fm.map,
             label_prefix |-> Opt(doc, "label_prefix", LabelPrefixDefault),
             intents |-> BUILTIN_INTENTS \cup Opt(doc, "intents", {}),
             email_categories |-> Opt(doc, "email_categories", {}),
             prompts |-> BUILTIN_PROMPTS \cup Opt(doc, "prompts", {}),
             body_extraction_prompts |->
                 Opt(doc, "body_extraction_prompts", BUILTIN_BODY_EXTRACTION_PROMPTS)]

RECURSIVE CountRules(_)
CountRules(chs) ==
    IF chs = << >> THEN 0 ELSE Len(Head(chs).rules) + CountRules(Tail(chs))

\* chains and rules of the largest document
DocChains == Len(DocB.chains)
DocRules == CountRules(DocB.chains)

\* ids the serial columns of triage_config_versions and triage_chains can
\* hand out within the bounds
MaxVersionId == Max(MaxImports, 2 * ConcImports)
VersionIds == 1 .. MaxVersionId
ChainIds == 1 .. DocChains * MaxVersionId

\* rule ids the serial column can hand out within the bounds
MaxRuleId == Max(Max(ListLen + 2 + MaxOps, ConcLen + 1 + 2), DocRules * MaxVersionId)
RuleIds == 1 .. MaxRuleId

(* ------------------------------- rows ---------------------------------- *)
\* The columns of triage_rules.  match_condition is held as content,
\* subject_intent and email_intent, the action as action and label, and
\* llm_config as whether it is given and its extract list; a boolean that
\* can be NULL is a TriState.  json tells, for each JSON-valued column, how
\* it holds its value: "object" for the value itself, which is what the
\* json.dumps text of the importer is stored as, "string" for a JSON string
\* whose characters are the JSON text of the value (text that was encoded
\* twice), "null" for a column that is NULL.
JsonColumns == {"match_condition", "variables", "action", "llm_config", "routes"}
\* What a cursor returns for such a column: psycopg2 decodes json and jsonb,
\* so an object comes as a dict, a JSON string as the str it holds and NULL
\* as None
Fetched(json) ==
    CASE json = "string" -> "text"
      [] json = "null" -> "none"
      [] OTHER -> "dict"
\* What a JSON-valued column stores for a parameter.  psycopg2 has no adapter
\* for dict and src/ registers none, so execute raises before the statement
\* is sent; a str is sent as a quoted literal, which the server reads as
\* JSON text; None is sent as NULL
AsJson(parameter) ==
    CASE parameter = "text" -> "object"
      [] parameter = "text_of_text" -> "string"
      [] parameter = "none" -> "null"
      [] OTHER -> "cannot_adapt"
NoLlm == [llm |-> FALSE, extract |-> {}]
NoJson == [col \in JsonColumns |-> "null"]
NoRule == [chain_id |-> NULL, config_version |-> NULL, prev_rule_id |-> NULL,
           next_rule_id |-> NULL, content |-> "", subject_intent |-> "",
           email_intent |-> "", action |-> "", label |-> << >>,
           jump_to_chain |-> "", return_to_parent |-> "none", variables |-> {},
           llm_config |-> NoLlm, routes |-> << >>, json |-> NoJson,
           row_version |-> NULL]
\* row_version of a row whose INSERT does not name the column
RowVersionDefault == 1
NoChain == [config_version |-> NULL, chain_name |-> ""]
NoVersion == [is_active |-> FALSE, config_hash |-> NULL, label_prefix |-> "",
              intents |-> {}, email_categories |-> {}, prompts |-> {},
              body_extraction_prompts |-> {}]

VARIABLES
    versions,   \* triage_config_versions: version -> row
    chains,     \* triage_chains: id -> row
    rules,      \* triage_rules: id -> row
    mappings,   \* triage_email_mappings: set of rows
    serial,     \* next value of the three serial columns
    lock,       \* row lock on a rule: rule id -> client holding it, or NULL
    clients,    \* the connections that issue operations
    budget,     \* client -> transactions it may still run
    pc,         \* client -> position in the handler it is running
    loc,        \* client -> local variables of the running handler
    tx,         \* client -> write log of its open transaction
    res,        \* client -> outcome of the handler it finished last (none while one runs)
    snap,       \* client -> committed tables when its last handler was called
    failed,     \* the clients one of whose handlers has raised
    last_alert,     \* RateLimiter.last_alert: error key -> time of the last allowed alert
    warning_counts, \* RateLimiter.warning_counts: warning key -> count (0: no entry)
    last_reset,     \* RateLimiter.last_reset
    now,            \* the reading of datetime.now(), in minutes
    daemon_lock,    \* AlerterDaemon._lock: the thread holding it, or NULL
    thread,         \* daemon thread -> position and local variables
    alerted,        \* the last call of should_alert and what it returned
    counted,        \* warning key -> calls of increment_warning so far
    reported,       \* warning key -> sum of the counts reset_warning_counts returned
    partitions,     \* the dates that have a partition of the queue table
    queue,          \* the committed rows of the queue table
    dead_letter,    \* the committed rows of the dead_letter table
    queue_serial,   \* next values of the id sequences, the next new payload, and
                    \* the counts of the other connections' statements and of the
                    \* partition manager's calls
    share_lock,     \* the partitions locked IN SHARE MODE by the open transaction
    dropper,        \* the connection that runs drop_partition: position, locals,
                    \* uncommitted writes, result
    retrier,        \* the connections that run retry_job: position, locals,
                    \* uncommitted writes, result
    queue_tables,   \* whether queue is a partitioned table, whether queue_old
                    \* exists, and the rows of queue_old
    migrator        \* the connection that runs migrate_to_partitioned or
                    \* drop_old_queue_table: position, locals, result

\* the rate limiter and the daemon of cortex_utils.alerter
alerter_vars == << last_alert, warning_counts, last_reset, now, daemon_lock,
                   thread, alerted, counted, reported >>

\* the job queue of cortex_utils.queue
migrate_vars == << queue_tables, migrator >>
queue_vars == << partitions, queue, dead_letter, queue_serial, share_lock, dropper,
                retrier, migrate_vars >>

\* the state of the components other than the rule store
outside_store == << alerter_vars, queue_vars >>

vars == << versions, chains, rules, mappings, serial, lock, clients, budget,
           pc, loc, tx, res, snap, failed, outside_store >>

db == << versions, chains, rules, mappings >>

\* the rule store and its connections
store_vars == << versions, chains, rules, mappings, serial, lock, clients, budget,
                pc, loc, tx, res, snap, failed >>

Exists(rs, id) == id \in DOMAIN rs /\ rs[id] # NoRule

(* ----------------------------- write log ------------------------------- *)
W(k, id, v) == [k |-> k, id |-> id, v |-> v]

\* The statement effects on triage_rules, in statement order.  The UPDATE of
\* update_rule_content (set_content) sets the columns rule_data names, each
\* to the value given: JSON text, or None; a column it does not name keeps
\* what it holds.
ApplyRuleWrite(rs, w) ==
    CASE w.k = "ins_rule" -> [rs EXCEPT ![w.id] = w.v]
      [] w.k = "set_next" ->
            IF Exists(rs, w.id) THEN [rs EXCEPT ![w.id].next_rule_id = w.v] ELSE rs
      [] w.k = "set_prev" ->
            IF Exists(rs, w.id) THEN [rs EXCEPT ![w.id].prev_rule_id = w.v] ELSE rs
      [] w.k = "set_content" ->
            IF Exists(rs, w.id)
            THEN [rs EXCEPT ![w.id] =
                    [@ EXCEPT !.content = IF "content" \in w.v.fields
                                          THEN w.v.content ELSE @,
                              !.subject_intent =
                                  IF "content" \in w.v.fields
                                  THEN Opt(w.v, "subject_intent", "") ELSE @,
                              !.email_intent =
                                  IF "content" \in w.v.fields
                                  THEN Opt(w.v, "email_intent", "") ELSE @,
                              !.action = IF "action" \in w.v.fields
                                         THEN w.v.action ELSE @,
                              !.label = IF "action" \in w.v.fields
                                        THEN Opt(w.v, "label", << >>) ELSE @,
                              !.jump_to_chain = IF "jump_to_chain" \in w.v.fields
                                                THEN w.v.jump_to_chain ELSE @,
                              !.json =
                                  [col \in JsonColumns |->
                                      IF col = "match_condition" /\ "content" \in w.v.fields
                                      THEN AsJson(IF w.v.content # "" THEN "text"
                                                  ELSE "none")
                                      ELSE IF col = "action" /\ "action" \in w.v.fields
                                      THEN AsJson(IF w.v.action # "" THEN "text"
                                                  ELSE "none")
                                      ELSE @[col]]]]
            ELSE rs
      [] w.k = "del_rule" ->
            IF Exists(rs, w.id) THEN [rs EXCEPT ![w.id] = NoRule] ELSE rs
      [] OTHER -> rs

RECURSIVE ApplyRules(_, _)
ApplyRules(rs, log) ==
    IF log = << >> THEN rs ELSE ApplyRules(ApplyRuleWrite(rs, Head(log)), Tail(log))

\* The statement effects on triage_config_versions: the INSERT of the
\* importer and the UPDATE of the insert trigger.
ApplyVersionWrite(vs, w) ==
    CASE w.k = "ins_version" -> [vs EXCEPT ![w.id] = w.v]
      [] w.k = "set_inactive" -> [vs EXCEPT ![w.id].is_active = FALSE]
      [] OTHER -> vs

RECURSIVE ApplyVersions(_, _)
ApplyVersions(vs, log) ==
    IF log = << >> THEN vs
    ELSE ApplyVersions(ApplyVersionWrite(vs, Head(log)), Tail(log))

RECURSIVE ApplyChains(_, _)
ApplyChains(cs, log) ==
    IF log = << >> THEN cs
    ELSE ApplyChains(IF Head(log).k = "ins_chain"
                     THEN [cs EXCEPT ![Head(log).id] = Head(log).v] ELSE cs,
                     Tail(log))

RECURSIVE ApplyMappings(_, _)
ApplyMappings(ms, log) ==
    IF log = << >> THEN ms
    ELSE ApplyMappings(IF Head(log).k = "ins_mapping" THEN ms \cup {Head(log).v} ELSE ms,
                       Tail(log))

(* ------------------------- import_yaml_to_db rows ---------------------- *)
\* importer.py 392-434: the row the INSERT writes for a rule of the document;
\* match_condition is always the json.dumps text of a mapping, the other
\* JSON-valued columns are json.dumps text, or None for a value that is absent
RuleRow(rule, chain_id, new_version, prev_rule_id) ==
    [chain_id |-> chain_id, config_version |-> new_version,
     prev_rule_id |-> prev_rule_id, next_rule_id |-> NULL,
     content |-> rule.content,
     subject_intent |-> Opt(rule, "subject_intent", ""),
     email_intent |-> Opt(rule, "email_intent", ""),
     action |-> rule.action, label |-> Opt(rule, "label", << >>),
     jump_to_chain |-> rule.jump,
     return_to_parent |-> Opt(rule, "return_to_parent", "none"),
     variables |-> Opt(rule, "variables", {}),
     llm_config |-> IF Opt(rule, "llm", FALSE)
                    THEN [llm |-> TRUE, extract |-> Opt(rule, "extract", {})]
                    ELSE NoLlm,
     routes |-> Opt(rule, "routes", << >>),
     json |-> [col \in JsonColumns |->
                 AsJson(IF \/ col = "match_condition"
                           \/ col = "variables" /\ Opt(rule, "variables", {}) # {}
                           \/ col = "action" /\ rule.action # ""
                           \/ col = "llm_config" /\ Opt(rule, "llm", FALSE)
                           \/ col = "routes" /\ Opt(rule, "routes", << >>) # << >>
                        THEN "text" ELSE "none")],
     row_version |-> RowVersionDefault]

\* importer.py 401 and 433: routes holds Action objects, which json.dumps
\* cannot write; only a rule without routes gets as far as its INSERT
JsonSerializable(rule) == Opt(rule, "routes", << >>) = << >>

\* every rule of the document can be written
Storable(doc) ==
    \A i \in DOMAIN doc.chains :
        \A j \in DOMAIN doc.chains[i].rules : JsonSerializable(doc.chains[i].rules[j])

\* importer.py 392-447: the statements for the rules of one chain of a
\* document whose import commits, linked in document order.
RECURSIVE RuleWrites(_, _, _, _, _)
RuleWrites(rs, chain_id, new_version, prev_rule_id, rule_id) ==
    IF rs = << >> THEN << >>
    ELSE << W("ins_rule", rule_id,
              RuleRow(Head(rs), chain_id, new_version, prev_rule_id)) >>
         \o (IF prev_rule_id # NULL
             THEN << W("set_next", prev_rule_id, rule_id) >> ELSE << >>)
         \o RuleWrites(Tail(rs), chain_id, new_version, rule_id, rule_id + 1)

\* importer.py 378-447: every chain of the document, then its rules.
RECURSIVE ChainWrites(_, _, _, _)
ChainWrites(chs, new_version, chain_id, rule_id) ==
    IF chs = << >> THEN << >>
    ELSE << W("ins_chain", chain_id,
              [config_version |-> new_version, chain_name |-> Head(chs).name]) >>
         \o RuleWrites(Head(chs).rules, chain_id, new_version, NULL, rule_id)
         \o ChainWrites(Tail(chs), new_version, chain_id + 1,
                        rule_id + Len(Head(chs).rules))

\* importer.py 450-470, 472-492: one row for every entry of a map of the
\* parsed document; deleted_at is left to the column default.
RECURSIVE MappingWritesOf(_, _, _)
MappingWritesOf(ms, mapping_type, new_version) ==
    IF ms = << >> THEN << >>
    ELSE << W("ins_mapping", NULL,
              [config_version |-> new_version, mapping_type |-> mapping_type,
               email_address |-> Lower(Head(ms).email), label |-> Head(ms).label,
               archive |-> Head(ms).archive, mark_read |-> Head(ms).mark_read,
               deleted_at |-> NULL]) >>
         \o MappingWritesOf(Tail(ms), mapping_type, new_version)

\* importer.py 449-492: both address maps.
MappingWrites(doc, new_version) ==
    LET config == load_rules_from_string(doc)
    IN MappingWritesOf(config.priority, "priority", new_version)
       \o MappingWritesOf(config.fallback, "fallback", new_version)

\* importer.py 314: the hash is taken over the document text.
ConfigHash(doc) == doc.text

\* importer.py 329-372: the version row, inserted active, with the label
\* prefix, intents, categories and prompts of the parsed document.
VersionWrite(doc, new_version) ==
    LET config == load_rules_from_string(doc)
    IN W("ins_version", new_version,
         [is_active |-> TRUE, config_hash |-> ConfigHash(doc),
          label_prefix |-> config.label_prefix, intents |-> config.intents,
          email_categories |-> config.email_categories, prompts |-> config.prompts,
          body_extraction_prompts |-> config.body_extraction_prompts])

\* the statements of an import that commits; an import that raises leaves
\* none
ImportLog(doc, new_version, chain_id, rule_id) ==
    IF Storable(doc)
    THEN << VersionWrite(doc, new_version) >>
         \o ChainWrites(doc.chains, new_version, chain_id, rule_id)
         \o MappingWrites(doc, new_version)
    ELSE << >>

StoredVersions(vs) == {v \in DOMAIN vs : vs[v] # NoVersion}
ActiveVersions(vs) == {v \in StoredVersions(vs) : vs[v].is_active}

(* ------------------------------ traverse ------------------------------- *)
Heads(rs, chain_id) ==
    {r \in DOMAIN rs : rs[r].chain_id = chain_id /\ rs[r].prev_rule_id = NULL}

\* Rows the recursive query adds at each position for the walk started at
\* one head: the row joined through next_rule_id, whatever chain it is in.
RECURSIVE Walk(_, _, _)
Walk(rs, id, fuel) ==
    IF id = NULL \/ ~Exists(rs, id) \/ fuel = 0 THEN << >>
    ELSE << id >> \o Walk(rs, rs[id].next_rule_id, fuel - 1)

WalkCap == MaxRuleId + 1

\* linked_list.py 21-117.  One walk per head (UNION ALL); the rows are
\* returned ordered by position.  With a single head the result is that
\* head's walk; a walk longer than the table never ends (cycle).
traverse_chain(rs, chain_id) ==
    LET hs == Heads(rs, chain_id)
    IN [walks |-> {Walk(rs, h, WalkCap) : h \in hs},
        ends  |-> \A h \in hs : Len(Walk(rs, h, WalkCap)) < WalkCap]

\* the walks that reach position i
WalksAt(ws, i) == {w \in ws : Len(w) >= i}

\* every order in which a statement without ORDER BY can visit the rows S
Perms(S) ==
    {q \in [1 .. Cardinality(S) -> S] : \A i, j \in DOMAIN q : i # j => q[i] # q[j]}

\* linked_list.py 69-70: the rows of all walks ordered by position; rows of
\* one position come in any order
RECURSIVE RowsFrom(_, _)
RowsFrom(ws, i) ==
    IF WalksAt(ws, i) = {} THEN {<< >>}
    ELSE {[k \in DOMAIN q |-> q[k][i]] \o rest :
            q \in Perms(WalksAt(ws, i)), rest \in RowsFrom(ws, i + 1)}

\* the sequences of rule ids traverse_chain can return when the query ends
TraverseRows(rs, chain_id) == RowsFrom(traverse_chain(rs, chain_id).walks, 1)

\* traverse_chain returns exactly the sequence s of rule ids
TraverseReturns(rs, chain_id, s) ==
    LET t == traverse_chain(rs, chain_id)
    IN /\ t.ends
       /\ IF s = << >> THEN t.walks = {} ELSE t.walks = {s}

Live(rs, chain_id) == {r \in DOMAIN rs : rs[r].chain_id = chain_id}

SeqRange(s) == {s[i] : i \in DOMAIN s}

\* The chain is a well-formed list: one head when non-empty, next from the
\* head visits every live rule once and ends at the single tail, prev is
\* the inverse of next, and traverse returns that sequence.
WellFormedChain(rs, chain_id) ==
    LET live == Live(rs, chain_id)
        hs == Heads(rs, chain_id)
    IN IF live = {} THEN TraverseReturns(rs, chain_id, << >>)
       ELSE /\ Cardinality(hs) = 1
            /\ LET s == Walk(rs, CHOOSE h \in hs : TRUE, WalkCap)
               IN /\ Len(s) = Cardinality(live)
                  /\ SeqRange(s) = live
                  /\ Cardinality({r \in live : rs[r].next_rule_id = NULL}) = 1
                  /\ rs[s[Len(s)]].next_rule_id = NULL
                  /\ \A i \in 2 .. Len(s) : rs[s[i]].prev_rule_id = s[i - 1]
                  /\ TraverseReturns(rs, chain_id, s)

StoredChains(cs) == {c \in DOMAIN cs : cs[c] # NoChain}

AllWellFormed(cs, rs) == \A c \in StoredChains(cs) : WellFormedChain(rs, c)

(* ------------------------------ clients -------------------------------- *)
NoDoc == [text |-> NULL, chains |-> << >>, priority |-> << >>, fallback |-> << >>]
\* the document export_config_to_yaml builds (exporter.py 158-168)
NoOut == [version |-> NULL, label_prefix |-> "", intents |-> {},
          email_categories |-> {}, prompts |-> {}, body_extraction_prompts |-> {},
          chains |-> << >>, priority |-> << >>, fallback |-> << >>]
\* the value rule_data or a row holds for a JSON-valued column is not None
Given(d, col) ==
    CASE col = "match_condition" -> d.content # ""
      [] col = "variables" -> Opt(d, "variables", {}) # {}
      [] col = "action" -> d.action # ""
      [] col = "llm_config" -> Opt(d, "llm_config", NoLlm) # NoLlm
      [] OTHER -> Opt(d, "routes", << >>) # << >>
\* linked_list.py 212-218: the parameters of the JSON-valued columns that
\* rule_data.get yields when the caller wrote each value it gives as
\* parameter says ("text": JSON text, "text_of_text": the JSON text encoded
\* once more); None for a key rule_data does not hold
WithJson(d, parameter) ==
    d @@ [json |-> [col \in JsonColumns |->
                      IF Given(d, col) THEN parameter ELSE "none"]]
RuleData(c) == WithJson([content |-> c, action |-> "act", jump_to_chain |-> ""], "text")
\* the content of a rule whose outcome is a jump to the chain j
JumpData(c, j) == WithJson([content |-> c, action |-> "", jump_to_chain |-> j], "text")
NoData == WithJson([content |-> "", action |-> "", jump_to_chain |-> ""], "text")
\* rule_data whose JSON-valued fields are json.dumps of the JSON text: the
\* columns then hold JSON strings
TwiceEncoded(c) ==
    WithJson([content |-> c, action |-> "act", jump_to_chain |-> ""], "text_of_text")

\* the rule_data of update_rule_content: the keys it holds among the
\* columns the handler knows, and their values
UpdateData(fields, c, a, j) ==
    [fields |-> fields, content |-> c, action |-> a, jump_to_chain |-> j]
NoUpdate == UpdateData({}, "", "", "")

IdleLoc == [op |-> "", chain_id |-> NULL, after_rule_id |-> NULL, rule_id |-> NULL,
            rule_data |-> NoData, config_version |-> NULL, prev_rule_id |-> NULL,
            next_rule_id |-> NULL, new_rule_id |-> NULL, lockq |-> << >>,
            cand |-> {}, doc |-> NoDoc, update |-> NoUpdate,
            expected_version |-> NULL, version |-> NULL, out |-> NoOut,
            ci |-> 0, ri |-> 0, todo |-> << >>]

NoCall == [chain_id |-> NULL, after_rule_id |-> NULL, rule_id |-> NULL, text |-> NULL,
           rule_data |-> NoData, update |-> NoUpdate, expected_version |-> NULL,
           version |-> NULL]
\* val: what the handler returned (of export and load, the version of the
\* document or configuration); rows: what traverse_chain returned; config:
\* what export or load returned
NoRes == [op |-> "", call |-> NoCall, status |-> "none", err |-> "", val |-> NULL,
          errors |-> {}, rows |-> << >>, config |-> NoConfig("")]

Tables == [versions |-> versions, chains |-> chains, rules |-> rules,
           mappings |-> mappings]

Release(p) == [r \in RuleIds |-> IF lock[r] = p THEN NULL ELSE lock[r]]

\* the arguments of the running call
CallOf(p) ==
    [chain_id |-> loc[p].chain_id, after_rule_id |-> loc[p].after_rule_id,
     rule_id |-> loc[p].rule_id, text |-> loc[p].doc.text,
     rule_data |-> loc[p].rule_data, update |-> loc[p].update,
     expected_version |-> loc[p].expected_version, version |-> loc[p].version]

\* the handler returns or raises with a result: the connection is idle again
EndWith(p, r) ==
    /\ pc' = [pc EXCEPT ![p] = "idle"]
    /\ res' = [res EXCEPT ![p] = [r EXCEPT !.op = loc[p].op, !.call = CallOf(p)]]
    /\ loc' = [loc EXCEPT ![p] = IdleLoc]
    /\ tx' = [tx EXCEPT ![p] = << >>]
    /\ lock' = Release(p)

End(p, status, err, val, errors) ==
    EndWith(p, [NoRes EXCEPT !.status = status, !.err = err, !.val = val,
                             !.errors = errors])

\* variant: the handler raises but the open transaction is committed
Raise_Commits(p, err, errors) ==
    /\ End(p, "error", err, NULL, errors)
    /\ failed' = failed \cup {p}
    /\ versions' = ApplyVersions(versions, tx[p])
    /\ chains' = ApplyChains(chains, tx[p])
    /\ rules' = ApplyRules(rules, tx[p])
    /\ mappings' = ApplyMappings(mappings, tx[p])
    /\ UNCHANGED serial

\* conn.rollback() and raise: the write log is dropped
Raise(p, err, errors) ==
    /\ End(p, "error", err, NULL, errors)
    /\ failed' = failed \cup {p}
    /\ UNCHANGED << versions, chains, rules, mappings, serial >>

Rollback(p, err) == Raise(p, err, {})

\* conn.commit(): the write log becomes the committed state
CommitTables(p) ==
    /\ versions' = ApplyVersions(versions, tx[p])
    /\ chains' = ApplyChains(chains, tx[p])
    /\ rules' = ApplyRules(rules, tx[p])
    /\ mappings' = ApplyMappings(mappings, tx[p])

Commit(p, val) ==
    /\ End(p, "ok", "", val, {})
    /\ CommitTables(p)
    /\ UNCHANGED << serial, failed >>

\* a client calls a handler that runs up to n transactions
Call(p, l, n) ==
    /\ p \in clients
    /\ pc[p] = "idle"
    /\ budget[p] >= n
    /\ budget' = [budget EXCEPT ![p] = @ - n]
    /\ loc' = [loc EXCEPT ![p] = l]
    /\ snap' = [snap EXCEPT ![p] = Tables]
    /\ res' = [res EXCEPT ![p] = NoRes]
    /\ UNCHANGED << versions, chains, rules, mappings, serial, lock, clients, outside_store, tx, failed >>

Goto(p, at, l) ==
    /\ pc' = [pc EXCEPT ![p] = at]
    /\ loc' = [loc EXCEPT ![p] = l]

LockPcs == {"ins_lock", "del_lock_self", "del_lock_nb"}

\* the row a client's FOR UPDATE statement has to wait for, or NULL
BlockedOn(p) ==
    IF pc[p] \in LockPcs /\ loc[p].lockq # << >>
       /\ Exists(rules, Head(loc[p].lockq))
       /\ lock[Head(loc[p].lockq)] \notin {NULL, p}
    THEN Head(loc[p].lockq) ELSE NULL

\* SELECT ... FOR UPDATE visits the next row: it takes the row lock when the
\* row is free, skips a row that was deleted meanwhile, and waits otherwise.
lock_row(p) ==
    /\ pc[p] \in LockPcs
    /\ loc[p].lockq # << >>
    /\ LET h == Head(loc[p].lockq)
       IN /\ ~Exists(rules, h) \/ lock[h] \in {NULL, p}
          /\ lock' = IF Exists(rules, h) THEN [lock EXCEPT ![h] = p] ELSE lock
          /\ loc' = [loc EXCEPT ![p].lockq = Tail(@)]
    /\ UNCHANGED << versions, chains, rules, mappings, serial, clients, outside_store, budget,
                    pc, tx, res, snap, failed >>

(* --------------------------- insert_rule_after ------------------------- *)
\* linked_list.py 120-141
insert_rule_after(p, chain_id, after_rule_id, rule_data) ==
    /\ Call(p, [IdleLoc EXCEPT !.op = "insert", !.chain_id = chain_id,
                               !.after_rule_id = after_rule_id,
                               !.rule_data = rule_data], 1)
    /\ pc' = [pc EXCEPT ![p] = "ins_chain"]

\* linked_list.py 144-152
insert_select_chain(p) ==
    /\ pc[p] = "ins_chain"
    /\ LET c == loc[p].chain_id
       IN IF c \notin DOMAIN chains \/ chains[c] = NoChain
          THEN Rollback(p, "chain_not_found") /\ UNCHANGED << clients, outside_store, budget, snap >>
          ELSE /\ Goto(p, IF loc[p].after_rule_id = NULL THEN "ins_head" ELSE "ins_next",
                       [loc[p] EXCEPT !.config_version = chains[c].config_version])
               /\ UNCHANGED << versions, chains, rules, mappings, serial, lock,
                               clients, outside_store, budget, tx, res, snap, failed >>

\* linked_list.py 154-161: the heads the statement finds when it starts
insert_select_head(p) ==
    /\ pc[p] = "ins_head"
    /\ LET hs == Heads(rules, loc[p].chain_id)
       IN \E q \in Perms(hs) :
            Goto(p, "ins_lock", [loc[p] EXCEPT !.cand = hs, !.lockq = q])
    /\ UNCHANGED << versions, chains, rules, mappings, serial, lock, clients, outside_store,
                    budget, tx, res, snap, failed >>

\* linked_list.py 166-185: next_rule_id is read without a lock, then the
\* anchor and that successor are locked by one statement
insert_select_next(p) ==
    /\ pc[p] = "ins_next"
    /\ LET a == loc[p].after_rule_id
       IN IF ~Exists(rules, a)
          THEN Rollback(p, "rule_not_found") /\ UNCHANGED << clients, outside_store, budget, snap >>
          ELSE /\ \E q \in Perms({r \in {a, rules[a].next_rule_id} : Exists(rules, r)}) :
                    Goto(p, "ins_lock",
                         [loc[p] EXCEPT !.prev_rule_id = a,
                                        !.next_rule_id = rules[a].next_rule_id,
                                        !.lockq = q])
               /\ UNCHANGED << versions, chains, rules, mappings, serial, lock,
                               clients, outside_store, budget, tx, res, snap, failed >>

\* linked_list.py 162-164: the head rows the locking statement returns are
\* the locked candidates that still are heads of the chain
LockedHeads(p) ==
    {h \in loc[p].cand : /\ Exists(rules, h)
                         /\ rules[h].chain_id = loc[p].chain_id
                         /\ rules[h].prev_rule_id = NULL}

\* linked_list.py 187-225: the INSERT with the columns rule_data holds;
\* return_to_parent is False when rule_data has no such key.  The values of
\* the JSON-valued columns are parameters as they are: a dict move_rule
\* read from a column that holds an object makes execute raise, and the
\* except clause rolls back (242-244)
InsertRow(p, l) ==
    IF \E col \in JsonColumns : AsJson(l.rule_data.json[col]) = "cannot_adapt"
    THEN Rollback(p, "cannot_adapt") /\ UNCHANGED << clients, outside_store, budget, snap >>
    ELSE
    /\ serial.rule <= MaxRuleId
    /\ serial' = [serial EXCEPT !.rule = @ + 1]
    /\ tx' = [tx EXCEPT ![p] = Append(@,
                W("ins_rule", serial.rule,
                  [chain_id |-> l.chain_id, config_version |-> l.config_version,
                   prev_rule_id |-> l.prev_rule_id, next_rule_id |-> l.next_rule_id,
                   content |-> l.rule_data.content,
                   subject_intent |-> Opt(l.rule_data, "subject_intent", ""),
                   email_intent |-> Opt(l.rule_data, "email_intent", ""),
                   action |-> l.rule_data.action,
                   label |-> Opt(l.rule_data, "label", << >>),
                   jump_to_chain |-> l.rule_data.jump_to_chain,
                   return_to_parent |-> Opt(l.rule_data, "return_to_parent", "false"),
                   variables |-> Opt(l.rule_data, "variables", {}),
                   llm_config |-> Opt(l.rule_data, "llm_config", NoLlm),
                   routes |-> Opt(l.rule_data, "routes", << >>),
                   json |-> [col \in JsonColumns |-> AsJson(l.rule_data.json[col])],
                   row_version |-> RowVersionDefault]))]
    /\ Goto(p, "ins_relink", [l EXCEPT !.new_rule_id = serial.rule])
    /\ UNCHANGED << versions, chains, rules, mappings, lock, clients, outside_store, budget,
                    res, snap, failed >>

\* variant: the row of the current head is read without testing for None
insert_row_NeedsHead(p) ==
    /\ pc[p] = "ins_lock"
    /\ loc[p].lockq = << >>
    /\ IF loc[p].after_rule_id = NULL
       THEN IF LockedHeads(p) = {}
            THEN Rollback(p, "type_error") /\ UNCHANGED << clients, outside_store, budget, snap >>
            ELSE \E h \in LockedHeads(p) :
                    InsertRow(p, [loc[p] EXCEPT !.prev_rule_id = NULL,
                                                !.next_rule_id = h])
       ELSE InsertRow(p, loc[p])

\* linked_list.py 162-164 and 187-225
insert_row(p) ==
    /\ pc[p] = "ins_lock"
    /\ loc[p].lockq = << >>
    /\ IF loc[p].after_rule_id = NULL
       THEN IF LockedHeads(p) = {}
            THEN InsertRow(p, [loc[p] EXCEPT !.prev_rule_id = NULL,
                                             !.next_rule_id = NULL])
            ELSE \E h \in LockedHeads(p) :
                    InsertRow(p, [loc[p] EXCEPT !.prev_rule_id = NULL,
                                                !.next_rule_id = h])
       ELSE InsertRow(p, loc[p])

\* variant: the old successor's prev_rule_id is not repointed
InsertRelinkWrites_NoPrev(l) ==
    IF l.prev_rule_id # NULL
    THEN << W("set_next", l.prev_rule_id, l.new_rule_id) >> ELSE << >>

\* linked_list.py 227-238
InsertRelinkWrites(l) ==
    (IF l.prev_rule_id # NULL
     THEN << W("set_next", l.prev_rule_id, l.new_rule_id) >> ELSE << >>)
    \o (IF l.next_rule_id # NULL
        THEN << W("set_prev", l.next_rule_id, l.new_rule_id) >> ELSE << >>)

insert_relink(p) ==
    /\ pc[p] = "ins_relink"
    /\ tx' = [tx EXCEPT ![p] = @ \o InsertRelinkWrites(loc[p])]
    /\ pc' = [pc EXCEPT ![p] = "ins_commit"]
    /\ UNCHANGED << versions, chains, rules, mappings, serial, lock, clients, outside_store,
                    budget, loc, res, snap, failed >>

\* linked_list.py 240-242: the new id is returned; move_rule (382-384) does
\* not pass it on and returns None
insert_commit(p) ==
    /\ pc[p] = "ins_commit"
    /\ Commit(p, IF loc[p].op = "move" THEN NULL ELSE loc[p].new_rule_id)
    /\ UNCHANGED << clients, outside_store, budget, snap >>

(* ------------------------------ delete_rule ---------------------------- *)
\* linked_list.py 251-265
delete_rule(p, rule_id) ==
    /\ Call(p, [IdleLoc EXCEPT !.op = "delete", !.rule_id = rule_id], 1)
    /\ pc' = [pc EXCEPT ![p] = "del_select"]

\* variant: a rule that is not stored is taken as already deleted
delete_select_Silent(p) ==
    /\ pc[p] = "del_select"
    /\ IF ~Exists(rules, loc[p].rule_id)
       THEN Commit(p, NULL) /\ UNCHANGED << clients, outside_store, budget, snap >>
       ELSE /\ Goto(p, "del_lock_self", [loc[p] EXCEPT !.lockq = << loc[p].rule_id >>])
            /\ UNCHANGED << versions, chains, rules, mappings, serial, lock,
                            clients, outside_store, budget, tx, res, snap, failed >>

\* linked_list.py 269-276: the statement finds the row, or no row
delete_select(p) ==
    /\ pc[p] = "del_select"
    /\ IF ~Exists(rules, loc[p].rule_id)
       THEN Rollback(p, "rule_not_found") /\ UNCHANGED << clients, outside_store, budget, snap >>
       ELSE /\ Goto(p, "del_lock_self", [loc[p] EXCEPT !.lockq = << loc[p].rule_id >>])
            /\ UNCHANGED << versions, chains, rules, mappings, serial, lock,
                            clients, outside_store, budget, tx, res, snap, failed >>

\* linked_list.py 274-286: the locked row is read, then its neighbours are
\* locked by a second statement
delete_lock_neighbors(p) ==
    /\ pc[p] = "del_lock_self"
    /\ loc[p].lockq = << >>
    /\ LET id == loc[p].rule_id
       IN IF ~Exists(rules, id)
          THEN Rollback(p, "rule_not_found") /\ UNCHANGED << clients, outside_store, budget, snap >>
          ELSE /\ \E q \in Perms({r \in {rules[id].prev_rule_id, rules[id].next_rule_id} :
                                    Exists(rules, r)}) :
                    Goto(p, "del_lock_nb",
                         [loc[p] EXCEPT !.prev_rule_id = rules[id].prev_rule_id,
                                        !.next_rule_id = rules[id].next_rule_id,
                                        !.lockq = q])
               /\ UNCHANGED << versions, chains, rules, mappings, serial, lock,
                               clients, outside_store, budget, tx, res, snap, failed >>

\* linked_list.py 288-300
DeleteRelinkWrites(l) ==
    (IF l.prev_rule_id # NULL
     THEN << W("set_next", l.prev_rule_id, l.next_rule_id) >> ELSE << >>)
    \o (IF l.next_rule_id # NULL
        THEN << W("set_prev", l.next_rule_id, l.prev_rule_id) >> ELSE << >>)

delete_relink(p) ==
    /\ pc[p] = "del_lock_nb"
    /\ loc[p].lockq = << >>
    /\ tx' = [tx EXCEPT ![p] = @ \o DeleteRelinkWrites(loc[p])]
    /\ pc' = [pc EXCEPT ![p] = "del_delete"]
    /\ UNCHANGED << versions, chains, rules, mappings, serial, lock, clients, outside_store,
                    budget, loc, res, snap, failed >>

\* variant: the DELETE statement is left out
delete_row_Keeps(p) ==
    /\ pc[p] = "del_delete"
    /\ pc' = [pc EXCEPT ![p] = "del_commit"]
    /\ UNCHANGED << versions, chains, rules, mappings, serial, lock, clients, outside_store,
                    budget, loc, tx, res, snap, failed >>

\* linked_list.py 303
delete_row(p) ==
    /\ pc[p] = "del_delete"
    /\ tx' = [tx EXCEPT ![p] = Append(@, W("del_rule", loc[p].rule_id, NULL))]
    /\ pc' = [pc EXCEPT ![p] = "del_commit"]
    /\ UNCHANGED << versions, chains, rules, mappings, serial, lock, clients, outside_store,
                    budget, loc, res, snap, failed >>

\* variant: called from move_rule the delete is not committed; its writes
\* stay in the transaction that the insert commits
delete_commit_Deferred(p) ==
    /\ pc[p] = "del_commit"
    /\ IF loc[p].op = "move"
       THEN /\ Goto(p, "ins_chain",
                    [IdleLoc EXCEPT !.op = "move", !.rule_id = loc[p].rule_id,
                                    !.chain_id = loc[p].chain_id,
                                    !.after_rule_id = loc[p].after_rule_id,
                                    !.rule_data = loc[p].rule_data])
            /\ UNCHANGED << versions, chains, rules, mappings, serial, lock, tx,
                            res, failed >>
       ELSE Commit(p, NULL)
    /\ UNCHANGED << clients, outside_store, budget, snap >>

\* linked_list.py 305-306; called from move_rule (379-382) the handler goes
\* on to insert_rule_after with the content read before the delete
delete_commit(p) ==
    /\ pc[p] = "del_commit"
    /\ IF loc[p].op = "move"
       THEN /\ CommitTables(p)
            /\ tx' = [tx EXCEPT ![p] = << >>]
            /\ lock' = Release(p)
            /\ Goto(p, "ins_chain",
                    [IdleLoc EXCEPT !.op = "move", !.rule_id = loc[p].rule_id,
                                    !.chain_id = loc[p].chain_id,
                                    !.after_rule_id = loc[p].after_rule_id,
                                    !.rule_data = loc[p].rule_data])
            /\ UNCHANGED << serial, res, failed >>
       ELSE Commit(p, NULL)
    /\ UNCHANGED << clients, outside_store, budget, snap >>

(* ------------------------------- move_rule ----------------------------- *)
\* linked_list.py 331-376: the columns of a row that move_rule reads into
\* rule_data, the JSON-valued ones as the cursor returns them
ContentOf(row) ==
    [content |-> row.content, subject_intent |-> row.subject_intent,
     email_intent |-> row.email_intent, action |-> row.action, label |-> row.label,
     jump_to_chain |-> row.jump_to_chain, return_to_parent |-> row.return_to_parent,
     variables |-> row.variables, llm_config |-> row.llm_config,
     routes |-> row.routes,
     json |-> [col \in JsonColumns |-> Fetched(row.json[col])]]

\* linked_list.py 315-327
move_rule(p, rule_id, after_rule_id) ==
    /\ Call(p, [IdleLoc EXCEPT !.op = "move", !.rule_id = rule_id,
                               !.after_rule_id = after_rule_id], 2)
    /\ pc' = [pc EXCEPT ![p] = "mv_select"]

\* linked_list.py 331-376
move_select(p) ==
    /\ pc[p] = "mv_select"
    /\ LET id == loc[p].rule_id
       IN IF ~Exists(rules, id)
          THEN Rollback(p, "rule_not_found") /\ UNCHANGED << clients, outside_store, budget, snap >>
          ELSE /\ Goto(p, "del_select",
                       [loc[p] EXCEPT !.chain_id = rules[id].chain_id,
                                      !.rule_data = ContentOf(rules[id])])
               /\ UNCHANGED << versions, chains, rules, mappings, serial, lock,
                               clients, outside_store, budget, tx, res, snap, failed >>

(* --------------------------- update_rule_content ----------------------- *)
\* linked_list.py 392-409
update_rule_content(p, rule_id, rule_data, expected_version) ==
    /\ Call(p, [IdleLoc EXCEPT !.op = "update", !.rule_id = rule_id,
                               !.update = rule_data,
                               !.expected_version = expected_version], 1)
    /\ pc' = [pc EXCEPT ![p] = "upd_build"]

\* linked_list.py 412-432: with no column to set the handler returns
update_build(p) ==
    /\ pc[p] = "upd_build"
    /\ IF loc[p].update.fields = {}
       THEN /\ End(p, "ok", "", NULL, {})
            /\ UNCHANGED << versions, chains, rules, mappings, serial, clients, outside_store,
                            budget, snap, failed >>
       ELSE /\ pc' = [pc EXCEPT ![p] = "upd_exec"]
            /\ UNCHANGED << versions, chains, rules, mappings, serial, lock,
                            clients, outside_store, budget, loc, tx, res, snap, failed >>

\* the row the UPDATE statement changes: the WHERE clause of 435-440
UpdateMatches(rs, id, expected_version) ==
    /\ Exists(rs, id)
    /\ expected_version # NULL => rs[id].row_version = expected_version

\* variant: the UPDATE also clears the row's next_rule_id
update_execute_Unlinks(p) ==
    /\ pc[p] = "upd_exec"
    /\ LET id == loc[p].rule_id
       IN /\ UpdateMatches(rules, id, loc[p].expected_version) => lock[id] \in {NULL, p}
          /\ IF UpdateMatches(rules, id, loc[p].expected_version)
             THEN /\ lock' = [lock EXCEPT ![id] = p]
                  /\ tx' = [tx EXCEPT ![p] = @ \o << W("set_content", id, loc[p].update),
                                                     W("set_next", id, NULL) >>]
                  /\ pc' = [pc EXCEPT ![p] = "upd_commit"]
                  /\ UNCHANGED << versions, chains, rules, mappings, serial,
                                  clients, outside_store, budget, loc, res, snap, failed >>
             ELSE /\ Rollback(p, IF loc[p].expected_version # NULL
                                 THEN "conflict" ELSE "rule_not_found")
                  /\ UNCHANGED << clients, outside_store, budget, snap >>

\* linked_list.py 443-455: the UPDATE waits for the row lock and sets the
\* columns that rule_data names; no row matched raises
update_execute(p) ==
    /\ pc[p] = "upd_exec"
    /\ LET id == loc[p].rule_id
       IN /\ UpdateMatches(rules, id, loc[p].expected_version) => lock[id] \in {NULL, p}
          /\ IF UpdateMatches(rules, id, loc[p].expected_version)
             THEN /\ lock' = [lock EXCEPT ![id] = p]
                  /\ tx' = [tx EXCEPT ![p] = Append(@, W("set_content", id, loc[p].update))]
                  /\ pc' = [pc EXCEPT ![p] = "upd_commit"]
                  /\ UNCHANGED << versions, chains, rules, mappings, serial,
                                  clients, outside_store, budget, loc, res, snap, failed >>
             ELSE /\ Rollback(p, IF loc[p].expected_version # NULL
                                 THEN "conflict" ELSE "rule_not_found")
                  /\ UNCHANGED << clients, outside_store, budget, snap >>

\* linked_list.py 457-458
update_commit(p) ==
    /\ pc[p] = "upd_commit"
    /\ Commit(p, NULL)
    /\ UNCHANGED << clients, outside_store, budget, snap >>

UpdateSteps(p) ==
    \/ update_build(p)
    \/ update_execute(p)
    \/ update_commit(p)

(* ----------------------------- traverse_chain ------------------------- *)
\* linked_list.py 21-32: a caller runs the query on its connection
traverse(p, chain_id) ==
    /\ Call(p, [IdleLoc EXCEPT !.op = "traverse", !.chain_id = chain_id], 1)
    /\ pc' = [pc EXCEPT ![p] = "trav_exec"]

\* linked_list.py 33-117: the rows are returned when the recursion ends; on
\* a cycle it does not end and the call never returns
traverse_execute(p) ==
    /\ pc[p] = "trav_exec"
    /\ IF traverse_chain(rules, loc[p].chain_id).ends
       THEN /\ \E s \in TraverseRows(rules, loc[p].chain_id) :
                    EndWith(p, [NoRes EXCEPT !.status = "ok", !.rows = s])
            /\ UNCHANGED << versions, chains, rules, mappings, serial, clients, outside_store,
                            budget, snap, failed >>
       ELSE /\ pc' = [pc EXCEPT ![p] = "trav_run"]
            /\ UNCHANGED << versions, chains, rules, mappings, serial, lock,
                            clients, outside_store, budget, loc, tx, res, snap, failed >>

(* ------------------ export_config_to_yaml, load_config_from_db --------- *)
\* the chain names and the stored addresses in ascending order
NameOrder == << "aux", "main" >>
EmailOrder == << "a@x", "b@x" >>

NameRank(n) == CHOOSE i \in DOMAIN NameOrder : NameOrder[i] = n

\* exporter.py 83-91: id and chain_name of the chains of the version,
\* ordered by chain_name (display_order is the same for every row the
\* importer writes)
ChainsOfVersion(cs, v) ==
    LET ids == {c \in DOMAIN cs : cs[c] # NoChain /\ cs[c].config_version = v}
        q == CHOOSE q \in Perms(ids) :
                \A i, j \in DOMAIN q :
                    i < j => NameRank(cs[q[i]].chain_name) < NameRank(cs[q[j]].chain_name)
    IN [i \in DOMAIN q |-> [id |-> q[i], chain_name |-> cs[q[i]].chain_name]]

\* exporter.py 99-116: the rule dict of a traversed row, with the optional
\* keys whose column holds a value.  The values are written as the cursor
\* returned them: strings names the columns whose value is a str, the JSON
\* text of the value, and not a mapping; match_null says that match is None
ExportRule(row) ==
    [content |-> row.content, action |-> row.action, jump |-> row.jump_to_chain]
    @@ (IF row.subject_intent # "" THEN [subject_intent |-> row.subject_intent]
        ELSE << >>)
    @@ (IF row.email_intent # "" THEN [email_intent |-> row.email_intent] ELSE << >>)
    @@ (IF row.variables # {} THEN [variables |-> row.variables] ELSE << >>)
    @@ (IF row.label # << >> THEN [label |-> row.label] ELSE << >>)
    @@ (IF row.return_to_parent = "true" THEN [return_to_parent |-> "true"] ELSE << >>)
    @@ (IF row.llm_config.llm THEN [llm |-> TRUE] ELSE << >>)
    @@ (IF row.llm_config.llm /\ row.llm_config.extract # {}
        THEN [extract |-> row.llm_config.extract] ELSE << >>)
    @@ (IF row.routes # << >> THEN [routes |-> row.routes] ELSE << >>)
    @@ (IF \E col \in JsonColumns : row.json[col] = "string"
        THEN [strings |-> {col \in JsonColumns : row.json[col] = "string"}]
        ELSE << >>)
    @@ (IF row.json.match_condition = "null" THEN [match_null |-> TRUE] ELSE << >>)

\* variant: an absent value is written as absent
ExportFlag_Keeps(x) == x

\* exporter.py 133-134, 151-152: the value written for a tri-state column
ExportFlag(x) == IF x = "none" THEN "false" ELSE x

\* variant: only the rows of the exported version are read
MappingRows_OfVersion(ms, mapping_type, v) ==
    {m \in ms : m.mapping_type = mapping_type /\ m.deleted_at = NULL
                 /\ m.config_version = v}

\* exporter.py 121-129, 139-147: the rows the SELECT returns for the export
\* of version v
MappingRows(ms, mapping_type, v) ==
    {m \in ms : m.mapping_type = mapping_type /\ m.deleted_at = NULL}

\* exporter.py 130-137, 148-155: the dict built from the rows, which come
\* ordered by address; of several rows with one address any can come last
\* and is the one the dict keeps
ExportMaps(rows) ==
    LET present == {m.email_address : m \in rows}
        Stored(e) == e \in present
        es == SelectSeq(EmailOrder, Stored)
    IN {[i \in DOMAIN es |->
            MapEntry(es[i], f[es[i]].label, ExportFlag(f[es[i]].archive),
                     ExportFlag(f[es[i]].mark_read))] :
          f \in {f \in [present -> rows] : \A e \in present : f[e].email_address = e}}

\* exporter.py 20-32
export_config_to_yaml(p, version) ==
    /\ Call(p, [IdleLoc EXCEPT !.op = "export", !.version = version], 1)
    /\ pc' = [pc EXCEPT ![p] = "exp_version"]

\* exporter.py 177-194
load_config_from_db(p, version) ==
    /\ Call(p, [IdleLoc EXCEPT !.op = "load", !.version = version], 1)
    /\ pc' = [pc EXCEPT ![p] = "exp_version"]

\* the call raises without having written anything
Fail(p, err) ==
    /\ End(p, "error", err, NULL, {})
    /\ failed' = failed \cup {p}
    /\ UNCHANGED << versions, chains, rules, mappings, serial, clients, outside_store, budget, snap >>

\* variant: without a version any stored version is taken
export_select_version_Any(p) ==
    /\ pc[p] = "exp_version"
    /\ LET found == IF loc[p].version = NULL THEN StoredVersions(versions)
                    ELSE StoredVersions(versions) \cap {loc[p].version}
       IN IF found = {}
          THEN Fail(p, IF loc[p].version = NULL THEN "no_active_version"
                       ELSE "version_not_found")
          ELSE /\ \E v \in found :
                    Goto(p, "exp_meta", [loc[p] EXCEPT !.config_version = v])
               /\ UNCHANGED << versions, chains, rules, mappings, serial, lock,
                               clients, outside_store, budget, tx, res, snap, failed >>

\* exporter.py 36-52: the active version, or the version asked for
export_select_version(p) ==
    /\ pc[p] = "exp_version"
    /\ LET found == IF loc[p].version = NULL THEN ActiveVersions(versions)
                    ELSE StoredVersions(versions) \cap {loc[p].version}
       IN IF found = {}
          THEN Fail(p, IF loc[p].version = NULL THEN "no_active_version"
                       ELSE "version_not_found")
          ELSE /\ \E v \in found :
                    Goto(p, "exp_meta", [loc[p] EXCEPT !.config_version = v])
               /\ UNCHANGED << versions, chains, rules, mappings, serial, lock,
                               clients, outside_store, budget, tx, res, snap, failed >>

\* exporter.py 54-77: the metadata and JSONB columns of the version row
export_read_version(p) ==
    /\ pc[p] = "exp_meta"
    /\ LET row == versions[loc[p].config_version]
       IN Goto(p, "exp_chains",
               [loc[p] EXCEPT !.out.version = loc[p].config_version,
                              !.out.label_prefix = row.label_prefix,
                              !.out.intents = row.intents,
                              !.out.email_categories = row.email_categories,
                              !.out.prompts = row.prompts,
                              !.out.body_extraction_prompts =
                                  row.body_extraction_prompts])
    /\ UNCHANGED << versions, chains, rules, mappings, serial, lock, clients, outside_store,
                    budget, tx, res, snap, failed >>

\* exporter.py 82-93: the SELECT of the chains of the version
export_select_chains(p) ==
    /\ pc[p] = "exp_chains"
    /\ LET cs == ChainsOfVersion(chains, loc[p].config_version)
       IN Goto(p, IF cs = << >> THEN "exp_priority" ELSE "exp_chain",
               [loc[p] EXCEPT !.todo = cs])
    /\ UNCHANGED << versions, chains, rules, mappings, serial, lock, clients, outside_store,
                    budget, tx, res, snap, failed >>

\* exporter.py 93-118: the next chain is traversed, by a query of its own
\* that reads what is committed when it runs
export_traverse_chain(p) ==
    /\ pc[p] = "exp_chain"
    /\ LET c == Head(loc[p].todo)
       IN IF traverse_chain(rules, c.id).ends
          THEN \E t \in TraverseRows(rules, c.id) :
                  Goto(p, IF Tail(loc[p].todo) = << >> THEN "exp_priority" ELSE "exp_chain",
                       [loc[p] EXCEPT !.todo = Tail(@),
                                      !.out.chains = Append(@,
                                          [name |-> c.chain_name,
                                           rules |-> [k \in DOMAIN t |->
                                                         ExportRule(rules[t[k]])]])])
          ELSE /\ pc' = [pc EXCEPT ![p] = "trav_run"]
               /\ UNCHANGED loc
    /\ UNCHANGED << versions, chains, rules, mappings, serial, lock, clients, outside_store,
                    budget, tx, res, snap, failed >>

\* exporter.py 120-137: the SELECT of the priority mappings
export_read_priority(p) ==
    /\ pc[p] = "exp_priority"
    /\ \E pm \in ExportMaps(MappingRows(mappings, "priority", loc[p].config_version)) :
            Goto(p, "exp_fallback", [loc[p] EXCEPT !.out.priority = pm])
    /\ UNCHANGED << versions, chains, rules, mappings, serial, lock, clients, outside_store,
                    budget, tx, res, snap, failed >>

\* exporter.py 139-155: the SELECT of the fallback mappings
export_read_fallback(p) ==
    /\ pc[p] = "exp_fallback"
    /\ \E fm \in ExportMaps(MappingRows(mappings, "fallback", loc[p].config_version)) :
            Goto(p, "exp_return", [loc[p] EXCEPT !.out.fallback = fm])
    /\ UNCHANGED << versions, chains, rules, mappings, serial, lock, clients, outside_store,
                    budget, tx, res, snap, failed >>

\* exporter.py 157-171: export returns the document; 192-197: load parses
\* it and raises ConfigLoadError when that fails
export_return(p) ==
    /\ pc[p] = "exp_return"
    /\ LET config == IF loc[p].op = "load" THEN load_rules_from_string(loc[p].out)
                     ELSE [err |-> ""] @@ loc[p].out
       IN IF config.err # ""
          THEN Fail(p, config.err)
          ELSE /\ EndWith(p, [NoRes EXCEPT !.status = "ok",
                                           !.val = loc[p].out.version,
                                           !.config = config])
               /\ UNCHANGED << versions, chains, rules, mappings, serial, clients, outside_store,
                               budget, snap, failed >>

ExportSteps(p) ==
    \/ export_select_version(p)
    \/ export_read_version(p)
    \/ export_select_chains(p)
    \/ export_traverse_chain(p)
    \/ export_read_priority(p)
    \/ export_read_fallback(p)
    \/ export_return(p)

(* ------------------------------- failures ------------------------------ *)
\* variant: the except clause commits what the transaction has written
statement_error_Commits(p) ==
    /\ pc[p] \notin {"idle", "imp_parse"}
    /\ Raise_Commits(p, "db_error", {})
    /\ UNCHANGED << clients, outside_store, budget, snap >>

\* the next statement of the handler raises (connection or database error):
\* linked_list.py 244-246, 308-310, 386-387, importer.py 498-500
statement_error(p) ==
    /\ pc[p] \notin {"idle", "imp_parse"}
    /\ Rollback(p, "db_error")
    /\ UNCHANGED << clients, outside_store, budget, snap >>

\* the database ends a lock cycle by failing the statement of one waiter
deadlock_abort(p) ==
    /\ BlockedOn(p) # NULL
    /\ LET q == lock[BlockedOn(p)]
       IN BlockedOn(q) # NULL /\ lock[BlockedOn(q)] = p
    /\ Rollback(p, "deadlock")
    /\ UNCHANGED << clients, outside_store, budget, snap >>

(* --------------------------- import_yaml_to_db ------------------------- *)
ChainNames(doc) == {doc.chains[i].name : i \in DOMAIN doc.chains}

\* importer.py 16, 258: the names TEMPLATE_PATTERN finds in a label, a word
\* between "{" and "}"
IsWord(t) == t \notin {"{", "}", "/"}
TemplateNames(label) ==
    {label[i + 1] : i \in {i \in 1 .. Len(label) - 2 :
                              /\ label[i] = "{"
                              /\ IsWord(label[i + 1])
                              /\ label[i + 2] = "}"}}

\* variant: the extract list of the llm outcome defines nothing
defined_vars_NoExtract(rule) == Opt(rule, "variables", {})

\* importer.py 219-253: the names the rule defines, its variables and the
\* extract list of its llm outcome
defined_vars(rule) ==
    Opt(rule, "variables", {})
    \cup (IF Opt(rule, "llm", FALSE) THEN Opt(rule, "extract", {}) ELSE {})

\* importer.py 257-258
get_undefined_vars(label, defined) == TemplateNames(label) \ defined

\* importer.py 190-279: the errors of one rule; i is its index from 0
RuleErrors(config, chain_name, i, rule) ==
    (IF rule.jump # "" /\ rule.jump \notin ChainNames(config)
     THEN {<< "jump_target", chain_name, i, rule.jump >>} ELSE {})
    \cup (IF /\ Opt(rule, "subject_intent", "") \notin {"", InlineIntent}
              /\ Opt(rule, "subject_intent", "") \notin Opt(config, "intents", {})
           THEN {<< "unknown_intent", chain_name, i, rule.subject_intent >>} ELSE {})
    \cup (IF /\ rule.action # ""
              /\ get_undefined_vars(Opt(rule, "label", << >>), defined_vars(rule)) # {}
           THEN {<< "undefined_vars", chain_name, i,
                    get_undefined_vars(rule.label, defined_vars(rule)) >>}
           ELSE {})
    \cup {<< "route_undefined_vars", chain_name, i,
             << Opt(rule, "routes", << >>)[k].key,
                get_undefined_vars(rule.routes[k].label, defined_vars(rule)) >> >> :
             k \in {k \in DOMAIN Opt(rule, "routes", << >>) :
                      get_undefined_vars(rule.routes[k].label, defined_vars(rule)) # {}}}

\* importer.py 179-281: every error is collected; rule indexes count from 0.
\* The documents hold no regular expressions and only identifiers as
\* variable names, so the checks of those report nothing.
validate_rules(doc) ==
    (IF "main" \notin ChainNames(doc) THEN {<< "no_main_chain", "", 0, "" >>} ELSE {})
    \cup UNION {UNION {RuleErrors(doc, doc.chains[i].name, j - 1, doc.chains[i].rules[j]) :
                          j \in DOMAIN doc.chains[i].rules} :
                 i \in DOMAIN doc.chains}

\* importer.py 284-304
import_yaml_to_db(p, doc) ==
    /\ Call(p, [IdleLoc EXCEPT !.op = "import", !.doc = doc], 1)
    /\ pc' = [pc EXCEPT ![p] = "imp_parse"]

\* variant: the error list is not looked at
import_validate_Ignores(p) ==
    /\ pc[p] = "imp_parse"
    /\ pc' = [pc EXCEPT ![p] = "imp_dup"]
    /\ UNCHANGED << versions, chains, rules, mappings, serial, lock,
                    clients, outside_store, budget, loc, tx, res, snap, failed >>

\* importer.py 307-311
import_validate(p) ==
    /\ pc[p] = "imp_parse"
    /\ LET config == load_rules_from_string(loc[p].doc)
           errors == validate_rules(config)
       IN IF config.err # ""
          THEN Raise(p, config.err, {}) /\ UNCHANGED << clients, outside_store, budget, snap >>
          ELSE IF errors # {}
          THEN Raise(p, "invalid_config", errors) /\ UNCHANGED << clients, outside_store, budget, snap >>
          ELSE /\ pc' = [pc EXCEPT ![p] = "imp_dup"]
               /\ UNCHANGED << versions, chains, rules, mappings, serial, lock,
                               clients, outside_store, budget, loc, tx, res, snap, failed >>

VersionsWithHash(vs, h) == {v \in DOMAIN vs : vs[v] # NoVersion /\ vs[v].config_hash = h}

\* variant: no look-up by hash, every import creates a version
import_check_duplicate_Skip(p) ==
    /\ pc[p] = "imp_dup"
    /\ pc' = [pc EXCEPT ![p] = "imp_version"]
    /\ UNCHANGED << versions, chains, rules, mappings, serial, lock,
                    clients, outside_store, budget, loc, tx, res, snap, failed >>

\* variant: a stored version with the hash is made the active one again
import_check_duplicate_Reactivates(p) ==
    /\ pc[p] = "imp_dup"
    /\ LET existing == {v \in DOMAIN versions :
                          versions[v] # NoVersion
                          /\ versions[v].config_hash = ConfigHash(loc[p].doc)}
       IN IF existing # {}
          THEN /\ \E v \in existing :
                    /\ End(p, "ok", "", v, {})
                    /\ versions' = [w \in DOMAIN versions |->
                                       IF versions[w] = NoVersion THEN NoVersion
                                       ELSE [versions[w] EXCEPT !.is_active = (w = v)]]
               /\ UNCHANGED << chains, rules, mappings, serial, clients, outside_store,
                               budget, snap, failed >>
          ELSE /\ pc' = [pc EXCEPT ![p] = "imp_version"]
               /\ UNCHANGED << versions, chains, rules, mappings, serial, lock,
                               clients, outside_store, budget, loc, tx, res, snap, failed >>

\* importer.py 313-327: a stored version with the hash is returned as it is
import_check_duplicate(p) ==
    /\ pc[p] = "imp_dup"
    /\ LET existing == VersionsWithHash(versions, ConfigHash(loc[p].doc))
       IN IF existing # {}
          THEN /\ \E v \in existing : End(p, "ok", "", v, {})
               /\ UNCHANGED << versions, chains, rules, mappings, serial, clients, outside_store,
                               budget, snap, failed >>
          ELSE /\ pc' = [pc EXCEPT ![p] = "imp_version"]
               /\ UNCHANGED << versions, chains, rules, mappings, serial, lock,
                               clients, outside_store, budget, loc, tx, res, snap, failed >>

\* where the loops of importer.py 378 and 392 go on after the statements for
\* rule ri of chain ci (ri = 0: after the INSERT of the chain)
ImportPosition(doc, ci, ri) ==
    IF ri < Len(doc.chains[ci].rules)
    THEN [pc |-> "imp_rule", ci |-> ci, ri |-> ri + 1]
    ELSE IF ci < Len(doc.chains)
    THEN [pc |-> "imp_chain", ci |-> ci + 1, ri |-> 0]
    ELSE [pc |-> "imp_mappings", ci |-> 0, ri |-> 0]

\* the members of a set of numbers from the least to the greatest
Ascending(S) == CHOOSE q \in Perms(S) : \A i, j \in DOMAIN q : i < j => q[i] < q[j]

\* importer.py 329-375: the INSERT of the version row with is_active = TRUE.
\* The insert trigger (364) starts its UPDATE ... SET is_active = FALSE in
\* the same statement: the other versions that are committed and active
\* when it starts are the rows it is going to visit
import_insert_version(p) ==
    /\ pc[p] = "imp_version"
    /\ serial.version <= MaxVersionId
    /\ serial' = [serial EXCEPT !.version = @ + 1]
    /\ tx' = [tx EXCEPT ![p] = Append(@, VersionWrite(loc[p].doc, serial.version))]
    /\ Goto(p, "imp_deactivate",
            [loc[p] EXCEPT !.config_version = serial.version,
                           !.lockq = Ascending(ActiveVersions(versions))])
    /\ UNCHANGED << versions, chains, rules, mappings, lock, clients, outside_store, budget,
                    res, snap, failed >>

\* the transaction has deactivated the version and not ended yet: it holds
\* the lock of the row
HoldsVersion(q, v) ==
    \E i \in DOMAIN tx[q] : tx[q][i].k = "set_inactive" /\ tx[q][i].id = v

\* The UPDATE of the insert trigger, in the transaction of the INSERT at READ
\* COMMITTED, visits the next row: it waits while another transaction that
\* deactivated the row is open, looks at the row as it is committed then, and
\* sets is_active = FALSE when it still is TRUE.  A version that was
\* committed after the UPDATE started is not visited.  After the last row
\* the import goes on with the chains (importer.py 377)
DeactivateOthers(p) ==
    /\ pc[p] = "imp_deactivate"
    /\ LET q == loc[p].lockq
           at == IF loc[p].doc.chains = << >>
                 THEN [pc |-> "imp_mappings", ci |-> loc[p].ci]
                 ELSE [pc |-> "imp_chain", ci |-> 1]
       IN IF q = << >>
          THEN /\ Goto(p, at.pc, [loc[p] EXCEPT !.ci = at.ci])
               /\ UNCHANGED tx
          ELSE /\ \A o \in DOMAIN tx : o # p => ~HoldsVersion(o, Head(q))
               /\ tx' = [tx EXCEPT ![p] =
                            IF versions[Head(q)].is_active
                            THEN Append(@, W("set_inactive", Head(q), NULL)) ELSE @]
               /\ IF Tail(q) = << >>
                  THEN Goto(p, at.pc, [loc[p] EXCEPT !.ci = at.ci, !.lockq = << >>])
                  ELSE Goto(p, "imp_deactivate", [loc[p] EXCEPT !.lockq = Tail(q)])
    /\ UNCHANGED << versions, chains, rules, mappings, serial, lock, clients, outside_store,
                    budget, res, snap, failed >>

\* importer.py 378-391: the INSERT of the next chain of the document
import_insert_chain(p) ==
    /\ pc[p] = "imp_chain"
    /\ serial.chain <= DocChains * MaxVersionId
    /\ serial' = [serial EXCEPT !.chain = @ + 1]
    /\ tx' = [tx EXCEPT ![p] = Append(@,
                W("ins_chain", serial.chain,
                  [config_version |-> loc[p].config_version,
                   chain_name |-> loc[p].doc.chains[loc[p].ci].name]))]
    /\ LET at == ImportPosition(loc[p].doc, loc[p].ci, 0)
       IN Goto(p, at.pc, [loc[p] EXCEPT !.chain_id = serial.chain,
                                        !.prev_rule_id = NULL,
                                        !.ci = at.ci, !.ri = at.ri])
    /\ UNCHANGED << versions, chains, rules, mappings, lock, clients, outside_store, budget,
                    res, snap, failed >>

\* importer.py 392-436: the INSERT of the next rule of the chain; building
\* its parameters raises for a rule with routes, before the statement runs
import_insert_rule(p) ==
    /\ pc[p] = "imp_rule"
    /\ LET rule == loc[p].doc.chains[loc[p].ci].rules[loc[p].ri]
           at == ImportPosition(loc[p].doc, loc[p].ci, loc[p].ri)
       IN IF ~JsonSerializable(rule)
          THEN /\ Raise(p, "not_json_serializable", {})
               /\ UNCHANGED << clients, outside_store, budget, snap >>
          ELSE /\ serial.rule <= MaxRuleId
               /\ serial' = [serial EXCEPT !.rule = @ + 1]
               /\ tx' = [tx EXCEPT ![p] = Append(@,
                           W("ins_rule", serial.rule,
                             RuleRow(rule, loc[p].chain_id, loc[p].config_version,
                                     loc[p].prev_rule_id)))]
               /\ IF loc[p].prev_rule_id # NULL
                  THEN Goto(p, "imp_link", [loc[p] EXCEPT !.new_rule_id = serial.rule])
                  ELSE Goto(p, at.pc, [loc[p] EXCEPT !.prev_rule_id = serial.rule,
                                                     !.ci = at.ci, !.ri = at.ri])
               /\ UNCHANGED << versions, chains, rules, mappings, lock, clients,
                               outside_store, budget, res, snap, failed >>

\* variant: the previous rule's next_rule_id is not set
import_link_rule_Skips(p) ==
    /\ pc[p] = "imp_link"
    /\ LET at == ImportPosition(loc[p].doc, loc[p].ci, loc[p].ri)
       IN Goto(p, at.pc, [loc[p] EXCEPT !.prev_rule_id = loc[p].new_rule_id,
                                        !.new_rule_id = NULL,
                                        !.ci = at.ci, !.ri = at.ri])
    /\ UNCHANGED << versions, chains, rules, mappings, serial, lock, clients,
                    outside_store, budget, tx, res, snap, failed >>

\* importer.py 437-445: the UPDATE of the previous rule's next_rule_id
import_link_rule(p) ==
    /\ pc[p] = "imp_link"
    /\ tx' = [tx EXCEPT ![p] = Append(@, W("set_next", loc[p].prev_rule_id,
                                           loc[p].new_rule_id))]
    /\ LET at == ImportPosition(loc[p].doc, loc[p].ci, loc[p].ri)
       IN Goto(p, at.pc, [loc[p] EXCEPT !.prev_rule_id = loc[p].new_rule_id,
                                        !.new_rule_id = NULL,
                                        !.ci = at.ci, !.ri = at.ri])
    /\ UNCHANGED << versions, chains, rules, mappings, serial, lock, clients,
                    outside_store, budget, res, snap, failed >>

\* importer.py 449-492
import_insert_mappings(p) ==
    /\ pc[p] = "imp_mappings"
    /\ tx' = [tx EXCEPT ![p] = @ \o MappingWrites(loc[p].doc, loc[p].config_version)]
    /\ pc' = [pc EXCEPT ![p] = "imp_commit"]
    /\ UNCHANGED << versions, chains, rules, mappings, serial, lock, clients, outside_store,
                    budget, loc, res, snap, failed >>

\* importer.py 494-496
import_commit(p) ==
    /\ pc[p] = "imp_commit"
    /\ Commit(p, loc[p].config_version)
    /\ UNCHANGED << clients, outside_store, budget, snap >>

ImportSteps(p) ==
    \/ import_validate(p)
    \/ import_check_duplicate(p)
    \/ import_insert_version(p)
    \/ DeactivateOthers(p)
    \/ import_insert_chain(p)
    \/ import_insert_rule(p)
    \/ import_link_rule(p)
    \/ import_insert_mappings(p)
    \/ import_commit(p)

(* ------------------------- list specifications ------------------------- *)
EmptyVersions == [v \in VersionIds |-> NoVersion]
EmptyChains == [c \in ChainIds |-> NoChain]
EmptyRules == [r \in RuleIds |-> NoRule]


\* the store after import_yaml_to_db of ListDoc(n) into an empty database
ListStore(n) ==
    LET log == ImportLog(ListDoc(n), 1, 1, 1)
    IN /\ versions = ApplyVersions(EmptyVersions, log)
       /\ chains = ApplyChains(EmptyChains, log)
       /\ rules = ApplyRules(EmptyRules, log)
       /\ mappings = ApplyMappings({}, log)
       /\ serial = [version |-> 2, chain |-> Len(ListDoc(n).chains) + 1,
                    rule |-> CountRules(ListDoc(n).chains) + 1]

(* ----------------------- alerter: the initial state --------------------- *)
\* the containers the daemon tails, one thread each, and the scheduler thread
Containers == {"gmail-sync", "triage"}
Scheduler == "scheduler"
Threads == Containers \cup {Scheduler}
NoThread == ""

\* classifier.py 27-141: some of PATTERNS, as title -> severity and cooldown
PATTERNS ==
    [out_of_memory |-> [severity |-> "CRITICAL", cooldown_minutes |-> 0],
     api_rate_limited |-> [severity |-> "HIGH", cooldown_minutes |-> 10],
     parse_failed |-> [severity |-> "WARNING", cooldown_minutes |-> 0]]
Titles == DOMAIN PATTERNS

\* classifier.py 157: error_key = f"{container}:{title}"
ErrorKey(container, title) == << container, title >>
ErrorKeys == Containers \X Titles

\* classifier.py 144-165: the classification of a line of the container that
\* matches the pattern of the title
classify(container, title) ==
    [severity |-> PATTERNS[title].severity, error_key |-> ErrorKey(container, title),
     cooldown_minutes |-> PATTERNS[title].cooldown_minutes]

NoCounts == [k \in ErrorKeys |-> 0]
NoClassification == [severity |-> "", error_key |-> << >>, cooldown_minutes |-> 0]
IdleThread == [pc |-> "idle", lines |-> 0, classification |-> NoClassification,
               counts |-> NoCounts]
NoAlertCall == [error_key |-> << >>, cooldown_minutes |-> 0, at |-> NULL,
                previous |-> NULL, before |-> [k \in ErrorKeys |-> NULL],
                returned |-> FALSE]

\* rate_limiter.py 14-17 and daemon.py 54-60: a new limiter in a new daemon;
\* the clock reads 1 when the daemon starts
InitAlerter ==
    /\ now = 1
    /\ last_alert = [k \in ErrorKeys |-> NULL]
    /\ warning_counts = NoCounts
    /\ last_reset = 1
    /\ daemon_lock = NoThread
    /\ thread = [t \in Threads |-> IdleThread]
    /\ alerted = [call |-> NoAlertCall, sent |-> [k \in ErrorKeys |-> NULL]]
    /\ counted = NoCounts
    /\ reported = NoCounts

(* ------------------------ queue: the initial state ---------------------- *)
\* migrate.py 30 and 36-38: the values of the status column
Statuses == {"pending", "processing", "completed", "failed", "cancelled"}
ActiveStatuses == {"pending", "processing"}

\* the rows an open transaction has inserted
NoWrites == [queue |-> {}, dead_letter |-> {}]
NoDropCall == [partition_date |-> "", archive_failed |-> FALSE, force |-> FALSE,
               dry_run |-> FALSE]
NoDropResult == [status |-> "none", archived_failed |-> 0, requeued |-> 0,
                 dropped_rows |-> 0, skipped_active |-> 0]
\* partitions.py 267-271: the totals of drop_old_partitions
NoTotals == [partitions_dropped |-> 0, partitions_skipped |-> 0, rows_dropped |-> 0,
             failed_archived |-> 0, requeued |-> 0]
\* caller is the method the connection was handed to, call the arguments of
\* the drop_partition that runs, todo the partitions drop_old_partitions has
\* still to visit, to_create the dates create_partition is still to be called
\* for; pending, processing and failed are the counts of partitions.py
\* 132-134; result is what drop_partition returned last, created and totals
\* are the results of create_future_partitions and drop_old_partitions
IdleDropper == [pc |-> "idle", caller |-> "", call |-> NoDropCall, retention_days |-> 0,
                todo |-> << >>, to_create |-> << >>, created |-> 0, totals |-> NoTotals,
                pending |-> 0, processing |-> 0,
                failed |-> 0, row_count |-> 0, requeued |-> 0, archived |-> 0,
                tx |-> NoWrites, result |-> NoDropResult]

\* queue is a partitioned table and there is no table queue_old
Partitioned == [partitioned |-> TRUE, old |-> FALSE, old_rows |-> {}]
\* migrate.py 72-77 and 253-258: the analysis and the result of a migration
NoAnalysis == [min_date |-> "", max_date |-> "", total_rows |-> 0]
NoMigration == [status |-> "none", partitions |-> 0, rows |-> 0]
\* new_partitions and new_rows are the partitions and the rows of queue_new
IdleMigrator == [pc |-> "idle", days_ahead |-> 0, dry_run |-> FALSE,
                 analysis |-> NoAnalysis, new_partitions |-> {}, new_rows |-> {},
                 result |-> NoMigration]

\* the connections that call DeadLetterManager.retry_job
Retriers == {1, 2}
\* calls of retry_job each of them may make
MaxRetries == 2
\* the value of a payload column (JSONB NOT NULL, migrate.py 27 and
\* dead_letter.py 21): a JSON object, which is what a job carries, or a JSON
\* string whose characters are the JSON text of that object (a payload that
\* was encoded twice); n tells the jobs apart
JsonObject(n) == [json |-> "object", n |-> n]
JsonString(n) == [json |-> "string", n |-> n]
JsonNull == [json |-> "null", n |-> 0]
\* dead_letter.py 121-122: get_job found no row
NoJob == [id |-> NULL, original_id |-> NULL, payload |-> JsonNull,
          failed_at |-> "", archived_from_partition |-> << >>]
\* op is the method the connection runs, job the row get_job returned,
\* inserted the rows the open transaction has added to queue, deleted the
\* dead_letter ids it has removed, count what purge returns
IdleRetrier == [pc |-> "idle", op |-> "none", job_id |-> NULL, older_than |-> 0,
                dry_run |-> FALSE, job |-> NoJob,
                inserted |-> {}, deleted |-> {}, left |-> MaxRetries,
                result |-> "none", count |-> 0]

\* a database with no partition and no job, and no connection open
InitQueue ==
    /\ partitions = {}
    /\ queue = {}
    /\ dead_letter = {}
    /\ queue_serial = [queue |-> 1, dead_letter |-> 1, payload |-> 1, events |-> 0, calls |-> 0]
    /\ share_lock = {}
    /\ dropper = IdleDropper
    /\ retrier = [c \in Retriers |-> IdleRetrier]
    /\ queue_tables = Partitioned
    /\ migrator = IdleMigrator

\* the other components in their initial state
InitOutside == InitAlerter /\ InitQueue

\* the connections cs of the rule store, each with n transactions to run
Connections(cs, n) ==
    /\ clients = cs
    /\ budget = [p \in Clients |-> IF p \in cs THEN n ELSE 0]
    /\ lock = [r \in RuleIds |-> NULL]
    /\ pc = [p \in Clients |-> "idle"]
    /\ loc = [p \in Clients |-> IdleLoc]
    /\ tx = [p \in Clients |-> << >>]
    /\ res = [p \in Clients |-> NoRes]
    /\ snap = [p \in Clients |-> Tables]
    /\ failed = {}

\* the connections of the rule store, and nothing running outside it
IdleClients(cs, n) == InitOutside /\ Connections(cs, n)

\* chain ids and rule ids a caller may pass: the ones handed out so far and
\* one that names no row
ChainArgs == 1 .. serial.chain
RuleArgs == 1 .. serial.rule
AnchorArgs == {NULL} \cup RuleArgs

InsertSteps(p) ==
    \/ insert_select_chain(p)
    \/ insert_select_head(p)
    \/ insert_select_next(p)
    \/ insert_row(p)
    \/ insert_relink(p)
    \/ insert_commit(p)

DeleteSteps(p) ==
    \/ delete_select(p)
    \/ delete_lock_neighbors(p)
    \/ delete_relink(p)
    \/ delete_row(p)
    \/ delete_commit(p)

\* One client: the operations run one at a time.
Init == ListStore(ListLen) /\ IdleClients({1}, MaxOps)

Next ==
    \E p \in Clients :
        \/ \E c \in ChainArgs, a \in AnchorArgs, d \in Contents :
              insert_rule_after(p, c, a, RuleData(d))
        \/ \E r \in RuleArgs : delete_rule(p, r)
        \/ \E r \in RuleArgs, a \in AnchorArgs : move_rule(p, r, a)
        \/ move_select(p)
        \/ lock_row(p)
        \/ InsertSteps(p)
        \/ DeleteSteps(p)
        \/ statement_error(p)

Spec == Init /\ [][Next]_vars

(* ------------------------ import specifications ------------------------ *)
EmptyStore ==
    /\ versions = EmptyVersions
    /\ chains = EmptyChains
    /\ rules = EmptyRules
    /\ mappings = {}
    /\ serial = [version |-> 1, chain |-> 1, rule |-> 1]

Docs == ValidDocs \cup InvalidDocs \cup UnparsableDocs \cup UnstorableDocs

NextImport ==
    \E p \in Clients :
        \/ \E doc \in Docs : import_yaml_to_db(p, doc)
        \/ ImportSteps(p)
        \/ statement_error(p)

\* One client importing into an empty database, one import at a time.
InitImport == EmptyStore /\ IdleClients({1}, MaxImports)
SpecImport == InitImport /\ [][NextImport]_vars

\* the documents the two clients import: two that can be stored, one with a
\* chain of two rules
ConcDocs == {DocC, DocD}

NextImportConc ==
    \E p \in Clients :
        \/ \E doc \in ConcDocs : import_yaml_to_db(p, doc)
        \/ ImportSteps(p)
        \/ statement_error(p)

\* Two clients importing into an empty database.
InitImportConc == EmptyStore /\ IdleClients({1, 2}, ConcImports)
SpecImportConc == InitImportConc /\ [][NextImportConc]_vars

(* -------------------- properties of the list handlers ------------------ *)
AllIdle == \A p \in clients : pc[p] = "idle"

\* C1: after any sequence of successful insert_rule_after, delete_rule and
\* move_rule calls made one at a time, every stored chain is a well-formed
\* list that traverse_chain returns in order.
C1_WellFormedAfterOps ==
    (AllIdle /\ failed = {}) => AllWellFormed(chains, rules)

\* C5: an insert_rule_after or delete_rule call that raised has left every
\* table as it was when the call was made.
C5_FailedInsertDeleteKeepsStore ==
    \A p \in clients :
        (pc[p] = "idle" /\ res[p].status = "error" /\ res[p].op \in {"insert", "delete"})
            => Tables = snap[p]

\* an insert raised after its INSERT statement had run, a delete after its
\* DELETE statement had run
C5_Witness ==
    /\ pc[1] = "idle"
    /\ res[1].status = "error"
    /\ res[1].err = "db_error"
    /\ res[1].op = "insert"
    /\ serial.rule > CountRules(ListDoc(ListLen).chains) + 1
    /\ Tables = snap[1]

\* C6: a move_rule call that raised has left every table as it was when the
\* call was made.
C6_FailedMoveKeepsStore ==
    \A p \in clients :
        (pc[p] = "idle" /\ res[p].status = "error" /\ res[p].op = "move")
            => Tables = snap[p]

\* the call was insert_rule_after(chain, None, .) on a stored chain that held
\* no rule, and no statement of it was failed by the database
HeadInsertIntoEmpty(p) ==
    /\ pc[p] = "idle"
    /\ res[p].op = "insert"
    /\ res[p].call.after_rule_id = NULL
    /\ res[p].call.chain_id \in StoredChains(snap[p].chains)
    /\ Live(snap[p].rules, res[p].call.chain_id) = {}
    /\ res[p].err # "db_error"

\* C20: insert_rule_after(chain, None, rule_data) on a chain with no rules
\* commits one rule with prev_rule_id and next_rule_id NULL that holds
\* rule_data, and traverse_chain of the chain then returns that rule alone.
C20_HeadInsertIntoEmptyChain ==
    \A p \in clients :
        HeadInsertIntoEmpty(p)
            => /\ res[p].status = "ok"
               /\ Exists(rules, res[p].val)
               /\ rules[res[p].val].prev_rule_id = NULL
               /\ rules[res[p].val].next_rule_id = NULL
               /\ rules[res[p].val].chain_id = res[p].call.chain_id
               /\ rules[res[p].val].content = res[p].call.rule_data.content
               /\ rules[res[p].val].action = res[p].call.rule_data.action
               /\ rules[res[p].val].jump_to_chain = res[p].call.rule_data.jump_to_chain
               /\ Live(rules, res[p].call.chain_id) = {res[p].val}
               /\ TraverseRows(rules, res[p].call.chain_id) = {<< res[p].val >>}
               /\ \A r \in RuleIds \ {res[p].val} : rules[r] = snap[p].rules[r]

\* the one rule of the second chain was deleted and a rule was then
\* inserted at the head of that chain
C20_Witness ==
    /\ HeadInsertIntoEmpty(1)
    /\ res[1].status = "ok"
    /\ Live(snap[1].rules, res[1].call.chain_id) = {}
    /\ \E r \in RuleIds : r < res[1].val /\ ~Exists(rules, r)
    /\ TraverseRows(rules, res[1].call.chain_id) = {<< res[1].val >>}

\* the call was delete_rule of a stored rule, and no statement of it was
\* failed by the database
DeletedStored(p) ==
    /\ pc[p] = "idle"
    /\ res[p].op = "delete"
    /\ Exists(snap[p].rules, res[p].call.rule_id)
    /\ res[p].err # "db_error"

\* the rules that name the rule id as their prev_rule_id or next_rule_id
Referencing(rs, id) ==
    {r \in DOMAIN rs : Exists(rs, r) /\ id \in {rs[r].prev_rule_id, rs[r].next_rule_id}}

\* C21: delete_rule of the only rule of a chain leaves the chain without
\* rules: traverse_chain returns the empty list and no stored rule names the
\* deleted rule as its prev_rule_id or next_rule_id.
C21_DeleteSoleRuleEmptiesChain ==
    \A p \in clients :
        (/\ DeletedStored(p)
         /\ Live(snap[p].rules, snap[p].rules[res[p].call.rule_id].chain_id)
                = {res[p].call.rule_id})
            => /\ res[p].status = "ok"
               /\ ~Exists(rules, res[p].call.rule_id)
               /\ Live(rules, snap[p].rules[res[p].call.rule_id].chain_id) = {}
               /\ TraverseRows(rules, snap[p].rules[res[p].call.rule_id].chain_id)
                      = {<< >>}
               /\ Referencing(rules, res[p].call.rule_id) = {}

\* the one rule of a chain was deleted
C21_Witness ==
    /\ DeletedStored(1)
    /\ res[1].status = "ok"
    /\ Live(snap[1].rules, snap[1].rules[res[1].call.rule_id].chain_id)
           = {res[1].call.rule_id}
    /\ Live(rules, snap[1].rules[res[1].call.rule_id].chain_id) = {}

\* the call was delete_rule of a rule id that names no stored rule
DeletedMissing(p) ==
    /\ pc[p] = "idle"
    /\ res[p].op = "delete"
    /\ ~Exists(snap[p].rules, res[p].call.rule_id)
    /\ res[p].err # "db_error"

\* C22: delete_rule of a rule id that is not stored raises the not-found
\* error and leaves every table as it was; delete_rule of a stored rule
\* succeeds and removes the row, so that a second delete_rule of the same
\* id raises the not-found error.
C22_DeleteMissingRuleFails ==
    \A p \in clients :
        /\ DeletedMissing(p)
              => /\ res[p].status = "error"
                 /\ res[p].err = "rule_not_found"
                 /\ Tables = snap[p]
        /\ DeletedStored(p)
              => res[p].status = "ok" /\ ~Exists(rules, res[p].call.rule_id)

\* a rule of the imported store was deleted, and the second delete_rule of
\* its id has raised
C22_Witness ==
    /\ DeletedMissing(1)
    /\ res[1].call.rule_id \in 1 .. CountRules(ListDoc(ListLen).chains)
    /\ res[1].err = "rule_not_found"
    /\ Tables = snap[1]

(* ---------------------- two concurrent list calls ---------------------- *)
\* Two connections, each making one call on the main chain of the store.
\* the ids import_yaml_to_db gave the main chain and its rules in that store
MainChain ==
    CHOOSE c \in ChainIds :
        ApplyChains(EmptyChains, ImportLog(ListDoc(ConcLen), 1, 1, 1))[c].chain_name = "main"
MainRules ==
    {r \in RuleIds :
        ApplyRules(EmptyRules, ImportLog(ListDoc(ConcLen), 1, 1, 1))[r].chain_id = MainChain}

InitConc == ListStore(ConcLen) /\ IdleClients({1, 2}, 1)

NextConc ==
    \E p \in Clients :
        \/ \E a \in {NULL} \cup MainRules : insert_rule_after(p, MainChain, a, RuleData("x"))
        \/ \E r \in MainRules : delete_rule(p, r)
        \/ lock_row(p)
        \/ InsertSteps(p)
        \/ DeleteSteps(p)
        \/ deadlock_abort(p)

SpecConc == InitConc /\ [][NextConc]_vars

Done(p) == pc[p] = "idle" /\ budget[p] = 0

\* both clients have returned from insert_rule_after(main, a1, .) and
\* insert_rule_after(main, a2, .) with anchors of the stored chain
BothInserted(a1, a2) ==
    /\ Done(1) /\ Done(2)
    /\ res[1].op = "insert" /\ res[2].op = "insert"
    /\ res[1].call.after_rule_id = a1 /\ res[2].call.after_rule_id = a2

\* in the store the calls start from, main is 1 -> 2 -> ... -> ConcLen
Adjacent(a1, a2) == a1 - a2 \in {-1, 1}

\* the rule n sits right behind the anchor a
RightAfter(n, a) ==
    /\ Exists(rules, n)
    /\ rules[n].prev_rule_id = a
    /\ rules[a].next_rule_id = n

InTraverse(n, chain_id) ==
    \E w \in traverse_chain(rules, chain_id).walks : n \in SeqRange(w)

\* C2: two insert_rule_after calls on the same anchor or on an anchor and its
\* successor that both commit leave a well-formed chain that holds both new
\* rules.
C2_OverlappingInsertsSerialized ==
    \A a1, a2 \in MainRules :
        (BothInserted(a1, a2) /\ (a1 = a2 \/ Adjacent(a1, a2))
         /\ res[1].status = "ok" /\ res[2].status = "ok")
            => /\ WellFormedChain(rules, MainChain)
               /\ InTraverse(res[1].val, MainChain)
               /\ InTraverse(res[2].val, MainChain)

\* C3: two insert_rule_after calls on different, non-adjacent anchors of one
\* chain both succeed, whatever the interleaving, and leave a well-formed
\* chain with each new rule right behind its anchor.
C3_DisjointInsertsBothSucceed ==
    \A a1, a2 \in MainRules :
        (BothInserted(a1, a2) /\ a1 # a2 /\ ~Adjacent(a1, a2))
            => /\ res[1].status = "ok" /\ res[2].status = "ok"
               /\ WellFormedChain(rules, MainChain)
               /\ RightAfter(res[1].val, a1)
               /\ RightAfter(res[2].val, a2)
               /\ InTraverse(res[1].val, MainChain)
               /\ InTraverse(res[2].val, MainChain)

\* the second caller got the lower rule id, so its INSERT ran before the
\* first caller's: the two transactions overlapped
C3_Witness ==
    /\ BothInserted(1, 3)
    /\ res[1].status = "ok" /\ res[2].status = "ok"
    /\ res[2].val < res[1].val
    /\ Cardinality(Live(rules, MainChain)) = ConcLen + 2

\* two clients each wait for a row lock the other holds
LockCycle ==
    \E p, q \in clients :
        /\ p # q
        /\ BlockedOn(p) # NULL /\ lock[BlockedOn(p)] = q
        /\ BlockedOn(q) # NULL /\ lock[BlockedOn(q)] = p

\* C4: no interleaving of two list calls reaches a state in which each waits
\* for a row lock held by the other.
C4_NoLockCycle == ~LockCycle

(* ------------------------ properties of the import --------------------- *)

ExactlyOneActive ==
    StoredVersions(versions) # {} => Cardinality(ActiveVersions(versions)) = 1

\* the commit of an import that created a version leaves that version as
\* the only active one
CommitActivatesNew ==
    \A p \in clients :
        (pc[p] = "imp_commit" /\ pc'[p] = "idle" /\ res'[p].status = "ok")
            => ActiveVersions(versions') = {res'[p].val}

\* C7: once an import has succeeded exactly one version is active in every
\* committed state, also with concurrent imports, and the commit of a new
\* version makes it the active one and the former one inactive at once.
C7_ExactlyOneActiveVersion == []ExactlyOneActive /\ [][CommitActivatesNew]_vars

ImportReturned(p) == pc[p] = "idle" /\ res[p].op = "import" /\ res[p].status = "ok"

\* the document of the client's last import was stored when it was called
WasStored(p) == VersionsWithHash(snap[p].versions, res[p].call.text)

\* C8: an import returns the id of the version that holds the document's
\* hash, only one version holds it, and importing a document that is stored
\* already adds no version, chain, rule or mapping row.
C8_SecondImportSameVersion ==
    \A p \in clients :
        ImportReturned(p)
            => /\ VersionsWithHash(versions, res[p].call.text) = {res[p].val}
               /\ WasStored(p) # {} => (WasStored(p) = {res[p].val} /\ Tables = snap[p])

C8_Witness ==
    /\ ImportReturned(1)
    /\ WasStored(1) = {res[1].val}
    /\ Cardinality(StoredVersions(versions)) = 1
    /\ chains # EmptyChains /\ rules # EmptyRules

\* C9: importing a document whose stored version is not the active one
\* returns that version and changes no version's active flag.
C9_ReimportDoesNotReactivate ==
    \A p \in clients :
        (ImportReturned(p) /\ WasStored(p) # {}
         /\ \A v \in WasStored(p) : ~snap[p].versions[v].is_active)
            => /\ res[p].val \in WasStored(p)
               /\ \A v \in VersionIds :
                      versions[v].is_active = snap[p].versions[v].is_active

C9_Witness ==
    /\ ImportReturned(1)
    /\ WasStored(1) = {1}
    /\ res[1].val = 1
    /\ ~versions[1].is_active
    /\ ActiveVersions(versions) = {2}

DocOfText(t) == CHOOSE d \in Docs : d.text = t

\* C10: the import of a document that parses but does not validate raises
\* with the list of errors and leaves every table as it was.
C10_InvalidImportRejected ==
    \A p \in clients :
        (pc[p] = "idle" /\ res[p].op = "import"
         /\ \E d \in InvalidDocs : d.text = res[p].call.text)
            => /\ res[p].status = "error"
               /\ res[p].err = "invalid_config"
               /\ res[p].errors = validate_rules(DocOfText(res[p].call.text))
               /\ res[p].errors # {}
               /\ Tables = snap[p]

C10_Witness ==
    /\ pc[1] = "idle" /\ res[1].op = "import"
    /\ res[1].call.text = DocNoMain.text
    /\ << "no_main_chain", "", 0, "" >> \in res[1].errors
    /\ StoredVersions(versions) # {}
    /\ Tables = snap[1]

\* the rows of the three dependent tables that belong to version v
RowsOf(t, v) ==
    [chains |-> {c \in DOMAIN t.chains : t.chains[c].config_version = v},
     rules |-> {r \in DOMAIN t.rules : t.rules[r].config_version = v},
     mappings |-> {m \in t.mappings : m.config_version = v}]

NoRows == [chains |-> {}, rules |-> {}, mappings |-> {}]

\* C11: an import that raised, also after its version row, chains, rules or
\* mappings had been inserted, has left no version and no row of a version
\* that was not stored before, and the active version is the one that was
\* active when the call was made.
C11_FailedImportLeavesNothing ==
    \A p \in clients :
        (pc[p] = "idle" /\ res[p].op = "import" /\ res[p].status = "error")
            => /\ StoredVersions(versions) = StoredVersions(snap[p].versions)
               /\ ActiveVersions(versions) = ActiveVersions(snap[p].versions)
               /\ \A v \in VersionIds :
                      IF v \in StoredVersions(snap[p].versions)
                      THEN RowsOf(Tables, v) = RowsOf(snap[p], v)
                      ELSE RowsOf(Tables, v) = NoRows

\* the second import raised after it had drawn the version id 2 and the ids
\* of its chains and rules; version 1 is stored and active
C11_Witness ==
    /\ pc[1] = "idle" /\ res[1].op = "import"
    /\ res[1].status = "error" /\ res[1].err = "db_error"
    /\ StoredVersions(versions) = {1}
    /\ ActiveVersions(versions) = {1}
    /\ serial.version = 3
    /\ serial.rule > Cardinality(RowsOf(Tables, 1).rules) + 1

(* ---------------------- update_rule_content calls ---------------------- *)
\* the rule_data a caller passes: no known column, a new match condition, a
\* jump added to the rule, the outcome replaced by a jump
UpdateDatas ==
    {NoUpdate,
     UpdateData({"content"}, "y", "", ""),
     UpdateData({"jump_to_chain"}, "", "", "nowhere"),
     UpdateData({"action", "jump_to_chain"}, "", "", "nowhere")}

\* no expected version, the version of a row that was never updated, and
\* one that no row has
ExpectedArgs == {NULL, RowVersionDefault, RowVersionDefault + 1}

\* Two connections, each updating one rule of the main chain.
InitUpdateConc == ListStore(ListLen) /\ IdleClients({1, 2}, 1)

NextUpdateConc ==
    \E p \in Clients :
        \/ \E r \in 1 .. ListLen, d \in UpdateDatas, e \in ExpectedArgs :
              update_rule_content(p, r, d, e)
        \/ UpdateSteps(p)

SpecUpdateConc == InitUpdateConc /\ [][NextUpdateConc]_vars

\* One connection updating rules of the store, one call at a time.
InitUpdate == ListStore(ListLen) /\ IdleClients({1}, MaxOps)

NextUpdate ==
    \E p \in Clients :
        \/ \E r \in RuleArgs, d \in UpdateDatas, e \in ExpectedArgs :
              update_rule_content(p, r, d, e)
        \/ UpdateSteps(p)

SpecUpdate == InitUpdate /\ [][NextUpdate]_vars

Updated(p) == pc[p] = "idle" /\ res[p].op = "update"

\* C12: update_rule_content called with an expected version that is not the
\* row_version of the stored rule raises the conflict error, whatever
\* rule_data holds, and leaves every rule row as it was.
C12_StaleUpdateFails ==
    \A p \in clients :
        (/\ Updated(p)
         /\ res[p].call.expected_version # NULL
         /\ Exists(snap[p].rules, res[p].call.rule_id)
         /\ snap[p].rules[res[p].call.rule_id].row_version
                # res[p].call.expected_version)
            => /\ res[p].status = "error"
               /\ res[p].err = "conflict"
               /\ rules = snap[p].rules

\* C13: an update_rule_content call that set a column has raised the row's
\* row_version, and of two calls on one rule with the same expected version
\* that both name a column at least one fails with the conflict error.
C13_SameVersionUpdatesConflict ==
    /\ \A p \in clients :
          (Updated(p) /\ res[p].status = "ok" /\ res[p].call.update.fields # {})
              => rules[res[p].call.rule_id].row_version
                     > snap[p].rules[res[p].call.rule_id].row_version
    /\ (/\ Updated(1) /\ Updated(2)
        /\ res[1].call.rule_id = res[2].call.rule_id
        /\ res[1].call.expected_version = res[2].call.expected_version
        /\ res[1].call.expected_version # NULL
        /\ res[1].call.update.fields # {} /\ res[2].call.update.fields # {})
           => \E p \in {1, 2} : res[p].status = "error" /\ res[p].err = "conflict"

(* --------------------------- export and load --------------------------- *)
\* the versions a caller may ask for: the active one (NULL), the ones
\* handed out so far and one that is not stored
VersionArgs == {NULL} \cup (1 .. serial.version)

NextExport ==
    \E p \in Clients :
        \/ \E doc \in Docs : import_yaml_to_db(p, doc)
        \/ \E v \in VersionArgs : export_config_to_yaml(p, v)
        \/ \E v \in VersionArgs : load_config_from_db(p, v)
        \/ ImportSteps(p)
        \/ ExportSteps(p)

\* One client importing into an empty database and exporting or loading
\* versions, one call at a time.
InitExport == EmptyStore /\ IdleClients({1}, MaxImports)
SpecExport == InitExport /\ [][NextExport]_vars

SeqSet(q) == {q[i] : i \in DOMAIN q}

\* two parsed documents hold the same chains with the same rules in the
\* same order, the same two address maps, the same label prefix and the
\* same intents, categories and prompts
SameContent(a, b) ==
    /\ SeqSet(a.chains) = SeqSet(b.chains)
    /\ SeqSet(a.priority) = SeqSet(b.priority)
    /\ SeqSet(a.fallback) = SeqSet(b.fallback)
    /\ a.label_prefix = b.label_prefix
    /\ a.intents = b.intents
    /\ a.email_categories = b.email_categories
    /\ a.prompts = b.prompts
    /\ a.body_extraction_prompts = b.body_extraction_prompts

Loaded(p) == pc[p] = "idle" /\ res[p].op = "load"
Exported(p) == pc[p] = "idle" /\ res[p].op \in {"export", "load"} /\ res[p].status = "ok"

\* C15: loading a stored version succeeds and returns the content that the
\* document it was imported from parses to, whatever other versions exist.
C15_ExportImportRoundTrip ==
    \A p \in clients :
        (Loaded(p) /\ res[p].call.version \in StoredVersions(versions))
            => /\ res[p].status = "ok"
               /\ SameContent(res[p].config,
                              load_rules_from_string(
                                  DocOfText(versions[res[p].call.version].config_hash)))

\* the addresses with their labels in a map of a returned document, and in
\* the rows of a version
MapLabels(m) == {<< m[i].email, m[i].label >> : i \in DOMAIN m}
RowLabels(ms, mapping_type, v) ==
    {<< m.email_address, m.label >> :
        m \in {m \in ms : m.mapping_type = mapping_type /\ m.config_version = v}}

\* C17: the priority and fallback maps that export and load return for a
\* version hold exactly the addresses and labels of that version's rows.
C17_OnlyOwnMappings ==
    \A p \in clients :
        Exported(p)
            => /\ MapLabels(res[p].config.priority)
                     = RowLabels(mappings, "priority", res[p].val)
               /\ MapLabels(res[p].config.fallback)
                     = RowLabels(mappings, "fallback", res[p].val)

\* the archive and mark_read values of a returned map are the ones of the
\* version's row for the address
FlagsKept(m, mapping_type, v) ==
    \A i \in DOMAIN m :
        \A r \in {r \in mappings : /\ r.mapping_type = mapping_type
                                    /\ r.config_version = v
                                    /\ r.email_address = m[i].email} :
            m[i].archive = r.archive /\ m[i].mark_read = r.mark_read

\* C19: export and load return archive and mark_read of a mapping as they
\* were imported: absent stays absent.
C19_TriStateSurvives ==
    \A p \in clients :
        Exported(p)
            => /\ FlagsKept(res[p].config.priority, "priority", res[p].val)
               /\ FlagsKept(res[p].config.fallback, "fallback", res[p].val)

\* the addresses a version has rows for in one of the two maps
RowEmails(ms, mapping_type, v) ==
    {m.email_address : m \in {m \in ms : m.mapping_type = mapping_type
                                         /\ m.config_version = v}}

\* C18: no stored version has an address in both of its maps, no document
\* that load returns has one, and the import of a document that has one
\* address, up to case and blanks, in both maps raises and stores nothing.
C18_NoAddressInBothMaps ==
    /\ \A v \in StoredVersions(versions) :
          RowEmails(mappings, "priority", v) \cap RowEmails(mappings, "fallback", v) = {}
    /\ \A p \in clients :
          /\ (Loaded(p) /\ res[p].status = "ok")
                => EmailsOf(res[p].config.priority)
                      \cap EmailsOf(res[p].config.fallback) = {}
          /\ (pc[p] = "idle" /\ res[p].op = "import"
               /\ \E doc \in UnparsableDocs : doc.text = res[p].call.text)
                => /\ res[p].status = "error"
                   /\ res[p].err = "duplicate_addresses"
                   /\ Tables = snap[p]

\* a load after two imports returned a document with both maps filled
C18_Witness ==
    /\ Loaded(1) /\ res[1].status = "ok"
    /\ res[1].config.priority # << >> /\ res[1].config.fallback # << >>
    /\ Cardinality(StoredVersions(versions)) = 2

(* ------------------------- traverse_chain calls ------------------------ *)
\* The store of ListDoc(n) in which prev_rule_id and next_rule_id of the
\* rules of the main chain hold any rule of the chain or NULL: the tables
\* traverse_chain can be run on, well-formed or not.
PointerStore(n) ==
    LET log == ImportLog(ListDoc(n), 1, 1, 1)
        base == ApplyRules(EmptyRules, log)
    IN /\ versions = ApplyVersions(EmptyVersions, log)
       /\ chains = ApplyChains(EmptyChains, log)
       /\ mappings = ApplyMappings({}, log)
       /\ serial = [version |-> 2, chain |-> Len(ListDoc(n).chains) + 1,
                    rule |-> CountRules(ListDoc(n).chains) + 1]
       /\ \E pv, nx \in [1 .. n -> 0 .. n] :
             rules = [r \in RuleIds |->
                        IF r \in 1 .. n
                        THEN [base[r] EXCEPT !.prev_rule_id = pv[r],
                                             !.next_rule_id = nx[r]]
                        ELSE base[r]]

InitTraverse == PointerStore(ListLen) /\ IdleClients({1}, 1)

NextTraverse ==
    \E p \in Clients :
        \/ \E c \in StoredChains(chains) : traverse(p, c)
        \/ traverse_execute(p)

SpecTraverse == InitTraverse /\ [][NextTraverse]_vars

\* the chain has rules but no head, more than one head, or a walk from a
\* head that revisits a rule
NoHead(rs, chain_id) == Live(rs, chain_id) # {} /\ Heads(rs, chain_id) = {}
ManyHeads(rs, chain_id) == Cardinality(Heads(rs, chain_id)) > 1
HasCycle(rs, chain_id) == ~traverse_chain(rs, chain_id).ends

Corrupt(rs, chain_id) ==
    NoHead(rs, chain_id) \/ ManyHeads(rs, chain_id) \/ HasCycle(rs, chain_id)

\* C14: traverse_chain on a chain without head, with several heads or with
\* a cycle ends, and it ends by raising the integrity error.
C14_CorruptChainRaises ==
    \A p \in clients :
        /\ pc[p] # "trav_run"
        /\ (pc[p] = "idle" /\ res[p].op = "traverse"
             /\ Corrupt(rules, res[p].call.chain_id))
                => res[p].status = "error" /\ res[p].err = "integrity_error"

\* the version created last
Newest(vs) == CHOOSE v \in StoredVersions(vs) : \A w \in StoredVersions(vs) : w <= v

\* the names of the chains stored for a version
ChainNamesOf(cs, v) ==
    {cs[c].chain_name : c \in {c \in StoredChains(cs) : cs[c].config_version = v}}

ExportCalled(p) == pc[p] = "idle" /\ res[p].op = "export"

\* C23: export_config_to_yaml without a version returns the version that is
\* active when it is called, which is the one created last, with the chains
\* of that version; with a version that is not stored it raises the
\* not-found error and changes no table.
C23_ExportDefaultsToActive ==
    \A p \in clients :
        /\ (ExportCalled(p) /\ res[p].call.version = NULL
             /\ StoredVersions(snap[p].versions) # {})
               => /\ res[p].status = "ok"
                  /\ res[p].val \in ActiveVersions(snap[p].versions)
                  /\ res[p].val = Newest(snap[p].versions)
                  /\ ChainNames(res[p].config) = ChainNamesOf(chains, res[p].val)
        /\ (ExportCalled(p) /\ res[p].call.version # NULL
             /\ res[p].call.version \notin StoredVersions(snap[p].versions))
               => /\ res[p].status = "error"
                  /\ res[p].err = "version_not_found"
                  /\ Tables = snap[p]

\* an export without a version after two versions were created
C23_Witness ==
    /\ ExportCalled(1)
    /\ res[1].call.version = NULL
    /\ res[1].status = "ok"
    /\ Cardinality(StoredVersions(versions)) = 2
    /\ res[1].val = 2

(* ------------------------ edits followed by a load --------------------- *)
\* the rule_data a caller of insert_rule_after passes: a rule with an action
\* and a rule that jumps to a chain no version holds
EditDatas == {RuleData("x"), JumpData("x", "nowhere")}

\* One connection editing the chains of the stored version and loading it,
\* one call at a time.
InitEdit == ListStore(ListLen) /\ IdleClients({1}, MaxOps)

NextEdit ==
    \E p \in Clients :
        \/ \E c \in StoredChains(chains), a \in AnchorArgs, d \in EditDatas :
              insert_rule_after(p, c, a, d)
        \/ \E r \in RuleArgs : delete_rule(p, r)
        \/ \E r \in RuleArgs, a \in AnchorArgs : move_rule(p, r, a)
        \/ \E r \in RuleArgs, d \in UpdateDatas : update_rule_content(p, r, d, NULL)
        \/ \E v \in VersionArgs : load_config_from_db(p, v)
        \/ move_select(p)
        \/ lock_row(p)
        \/ InsertSteps(p)
        \/ DeleteSteps(p)
        \/ UpdateSteps(p)
        \/ ExportSteps(p)

SpecEdit == InitEdit /\ [][NextEdit]_vars

\* C16: the configuration load_config_from_db returns, after any imports
\* and any insert_rule_after, delete_rule, move_rule and update_rule_content
\* calls on the chains of the version, passes validate_rules with no error.
C16_LoadedConfigIsValid ==
    \A p \in clients :
        (Loaded(p) /\ res[p].status = "ok") => validate_rules(res[p].config) = {}

(* ----------------------- construction of a rule ------------------------ *)
\* the outcome fields a rule of a document can come with: action and jump
\* given or not, return_to_parent true, false or absent, llm given or not
OutcomeRules ==
    {[content |-> "x", action |-> a, jump |-> j, return_to_parent |-> r, llm |-> l] :
        a \in {"", "act"}, j \in {"", "aux"}, r \in TriState, l \in BOOLEAN}

\* each of them without the routes key, with empty routes and with one route
RuleInputs ==
    OutcomeRules
    \cup {rule @@ [routes |-> rs] :
            rule \in OutcomeRules, rs \in {<< >>, << Route("k", << "L" >>) >>}}

\* the text of the document that holds the rule: one number per rule
RuleText(rule) ==
    100 + (IF rule.action # "" THEN 1 ELSE 0)
        + (IF rule.jump # "" THEN 2 ELSE 0)
        + (CASE rule.return_to_parent = "none" -> 0
             [] rule.return_to_parent = "false" -> 4
             [] OTHER -> 8)
        + (IF rule.llm THEN 12 ELSE 0)
        + (IF "routes" \notin DOMAIN rule THEN 0
           ELSE IF rule.routes = << >> THEN 24 ELSE 48)

\* a document with the rule as the first rule of main, and a chain to jump to
RuleDoc(rule) ==
    [text |-> RuleText(rule),
     chains |-> << [name |-> "main", rules |-> << rule, DocRule("y", "") >>],
                   [name |-> "aux", rules |-> << DocRule("y", "") >> ] >>,
     priority |-> << >>,
     fallback |-> << >>]

RuleOfText(t) == CHOOSE rule \in RuleInputs : RuleText(rule) = t

\* One client importing one document that holds one of the rules.
InitRule == EmptyStore /\ IdleClients({1}, 1)

NextRule ==
    \E p \in Clients :
        \/ \E rule \in RuleInputs : import_yaml_to_db(p, RuleDoc(rule))
        \/ ImportSteps(p)

SpecRule == InitRule /\ [][NextRule]_vars

\* the outcome kinds the rule has populated
Outcomes(rule) ==
    {k \in {"action", "jump"} : rule[k] # ""}
    \cup (IF rule.return_to_parent = "true" THEN {"return_to_parent"} ELSE {})
    \cup (IF rule.llm THEN {"llm"} ELSE {})

\* exactly one outcome, and an llm outcome has at least one route
OneOutcome(rule) ==
    /\ Cardinality(Outcomes(rule)) = 1
    /\ rule.llm => ("routes" \in DOMAIN rule /\ Len(rule.routes) >= 1)

RuleImported(p) ==
    /\ pc[p] = "idle"
    /\ res[p].op = "import"
    /\ res[p].call.text \in {RuleText(rule) : rule \in RuleInputs}

\* C24: a rule is constructed exactly when it has one outcome among action,
\* jump, return_to_parent = true and llm, and routes with its llm outcome:
\* the import of a document with such a rule does not raise at construction
\* and, when it returns a version, has stored the rule; the import of a
\* document with any other rule raises at construction, before
\* validate_rules is called, and stores nothing.
C24_RuleHasOneOutcome ==
    /\ \A rule \in RuleInputs : check_exclusive_outcomes(rule) <=> OneOutcome(rule)
    /\ \A p \in clients :
          RuleImported(p)
              => IF OneOutcome(RuleOfText(res[p].call.text))
                 THEN /\ res[p].err # "invalid_rule"
                      /\ res[p].errors = {}
                      /\ res[p].status = "ok"
                            => \E r \in RuleIds :
                                  /\ Exists(rules, r)
                                  /\ rules[r].chain_id = 1
                                  /\ rules[r].prev_rule_id = NULL
                                  /\ rules[r]
                                       = [RuleRow(RuleOfText(res[p].call.text), 1, 1, NULL)
                                             EXCEPT !.next_rule_id = rules[r].next_rule_id]
                 ELSE /\ res[p].status = "error"
                      /\ res[p].err = "invalid_rule"
                      /\ res[p].errors = {}
                      /\ Tables = snap[p]

\* the import of a rule whose only outcome is llm, without routes, has raised
C24_Witness ==
    /\ RuleImported(1)
    /\ Outcomes(RuleOfText(res[1].call.text)) = {"llm"}
    /\ Opt(RuleOfText(res[1].call.text), "routes", << >>) = << >>
    /\ res[1].err = "invalid_rule"
    /\ StoredVersions(versions) = {}

(* ------------------------ label templates of a rule -------------------- *)
\* labels: none, without a placeholder, "X/{missing}", "{a}/{missing}",
\* "{{a}}", "{b}" and "X{a" (the brace is not closed)
Labels ==
    << << >>,
       << "X" >>,
       << "X", "/", "{", "missing", "}" >>,
       << "{", "a", "}", "/", "{", "missing", "}" >>,
       << "{", "{", "a", "}", "}" >>,
       << "{", "b", "}" >>,
       << "X", "{", "a" >> >>
RouteLabels == << << "X" >>, << "{", "a", "}" >>, << "{", "missing", "}" >> >>
VarSets == << {}, {"a"}, {"missing"}, {"a", "missing"} >>
Extracts == << {}, {"missing"} >>

\* a rule with an action that has the label, and the variables
ActionRule(li, vi) ==
    [content |-> "x", action |-> "act", jump |-> "",
     label |-> Labels[li], variables |-> VarSets[vi]]

\* a rule with an llm outcome, its extract list, two routes and the variables
LlmRule(ei, l1, l2, vi) ==
    [content |-> "x", action |-> "", jump |-> "", llm |-> TRUE,
     extract |-> Extracts[ei],
     routes |-> << Route("k", RouteLabels[l1]), Route("m", RouteLabels[l2]) >>,
     variables |-> VarSets[vi]]

\* the second rule of main defines b and uses it
RuleWithB ==
    [content |-> "y", action |-> "act", jump |-> "",
     label |-> << "{", "b", "}" >>, variables |-> {"b"}]

LabelDoc(t, rule) ==
    [text |-> t,
     chains |-> << [name |-> "main", rules |-> << rule, RuleWithB >>] >>,
     priority |-> << >>,
     fallback |-> << >>]

LabelDocs ==
    {LabelDoc(200 + (li - 1) * Len(VarSets) + (vi - 1), ActionRule(li, vi)) :
        li \in DOMAIN Labels, vi \in DOMAIN VarSets}
    \cup {LabelDoc(300 + (((ei - 1) * 3 + (l1 - 1)) * 3 + (l2 - 1)) * 2 + (vi - 1),
                   LlmRule(ei, l1, l2, vi)) :
            ei \in DOMAIN Extracts, l1 \in DOMAIN RouteLabels,
            l2 \in DOMAIN RouteLabels, vi \in 1 .. 2}

LabelDocOfText(t) == CHOOSE doc \in LabelDocs : doc.text = t

\* One client importing one of the documents.
InitLabel == EmptyStore /\ IdleClients({1}, 1)

NextLabel ==
    \E p \in Clients :
        \/ \E doc \in LabelDocs : import_yaml_to_db(p, doc)
        \/ ImportSteps(p)

SpecLabel == InitLabel /\ [][NextLabel]_vars

\* the label holds the placeholder {n}
Mentions(label, n) ==
    \E i \in DOMAIN label :
        i + 2 \in DOMAIN label /\ label[i] = "{" /\ label[i + 1] = n /\ label[i + 2] = "}"

\* the placeholders of the label that the rule does not define
Undefined(rule, label) ==
    {n \in {"a", "b", "missing", "X"} :
        /\ Mentions(label, n)
        /\ n \notin Opt(rule, "variables", {})
        /\ n \notin Opt(rule, "extract", {})}

\* the errors the claim asks for on rule i of main
LabelErrors(rule, i) ==
    (IF rule.action # "" /\ Undefined(rule, rule.label) # {}
     THEN {<< "undefined_vars", "main", i, Undefined(rule, rule.label) >>} ELSE {})
    \cup {<< "route_undefined_vars", "main", i,
             << rule.routes[k].key, Undefined(rule, rule.routes[k].label) >> >> :
             k \in {k \in DOMAIN Opt(rule, "routes", << >>) :
                      Undefined(rule, rule.routes[k].label) # {}}}

LabelImported(p) ==
    /\ pc[p] = "idle"
    /\ res[p].op = "import"
    /\ res[p].call.text \in {doc.text : doc \in LabelDocs}

\* C25: validate_rules reports for a rule each of its labels (of its action
\* and of its routes) with the placeholders that neither its variables nor
\* its llm extract list define, and nothing for a label whose placeholders
\* are all defined, in which case the import raises no validation error;
\* the import of a document with such an error raises with these errors
\* and stores nothing.
C25_UndefinedPlaceholdersReported ==
    \A p \in clients :
        LabelImported(p)
            => LET doc == LabelDocOfText(res[p].call.text)
                   expected == LabelErrors(doc.chains[1].rules[1], 0)
               IN /\ validate_rules(load_rules_from_string(doc)) = expected
                  /\ IF expected = {}
                     THEN /\ res[p].err # "invalid_config"
                          /\ res[p].errors = {}
                          /\ Storable(doc) => res[p].status = "ok"
                     ELSE /\ res[p].status = "error"
                          /\ res[p].err = "invalid_config"
                          /\ res[p].errors = expected
                          /\ Tables = snap[p]

\* the import of the document whose first rule has the action label
\* "X/{missing}" and defines nothing has raised with that rule and {missing}
C25_Witness ==
    /\ LabelImported(1)
    /\ LabelDocOfText(res[1].call.text).chains[1].rules[1] = ActionRule(3, 1)
    /\ res[1].errors = {<< "undefined_vars", "main", 0, {"missing"} >>}
    /\ StoredVersions(versions) = {}

(* ------------------------- intent references --------------------------- *)
\* what a match condition can give as subject_intent or email_intent:
\* nothing, a built-in intent, an intent the document defines, a name that
\* is not defined, an inline definition
IntentRefs == {"", "todo_request", "mine", "unknown", InlineIntent}

\* a document with one chain of the rule and a second rule that refers to
\* no intent: the chain is main or not, the rule jumps to a chain that is
\* not defined or has an action, and the document defines the intent "mine"
\* or has no intents key
IntentDoc(si, ei, name, j, own) ==
    LET rule == [content |-> "x", action |-> IF j = "" THEN "act" ELSE "", jump |-> j,
                 subject_intent |-> si, email_intent |-> ei]
        doc == [chains |-> << [name |-> name, rules |-> << rule, DocRule("y", "") >>] >>,
                priority |-> << >>,
                fallback |-> << >>]
        code == CASE si = "" -> 0 [] si = "todo_request" -> 1 [] si = "mine" -> 2
                  [] si = "unknown" -> 3 [] OTHER -> 4
        ecode == CASE ei = "" -> 0 [] ei = "todo_request" -> 1 [] ei = "mine" -> 2
                   [] ei = "unknown" -> 3 [] OTHER -> 4
        text == 1000 + (((code * 5 + ecode) * 2 + (IF name = "main" THEN 0 ELSE 1)) * 2
                        + (IF j = "" THEN 0 ELSE 1)) * 2 + (IF own THEN 1 ELSE 0)
    IN IF own THEN doc @@ [text |-> text, intents |-> {"mine"}]
       ELSE doc @@ [text |-> text]

IntentDocs ==
    {IntentDoc(si, ei, name, j, own) :
        si \in IntentRefs, ei \in IntentRefs, name \in {"main", "aux"},
        j \in {"", "nowhere"}, own \in BOOLEAN}

IntentDocOfText(t) == CHOOSE doc \in IntentDocs : doc.text = t

\* One client importing one of the documents.
InitIntent == EmptyStore /\ IdleClients({1}, 1)

NextIntent ==
    \E p \in Clients :
        \/ \E doc \in IntentDocs : import_yaml_to_db(p, doc)
        \/ ImportSteps(p)

SpecIntent == InitIntent /\ [][NextIntent]_vars

\* the intents of the document: the built-in ones and the ones it defines
DefinedIntents(doc) == BUILTIN_INTENTS \cup Opt(doc, "intents", {})

\* the intent is given by a name that is not defined
UnknownIntent(doc, ref) == ref \notin {"", InlineIntent} /\ ref \notin DefinedIntents(doc)

\* the errors the claim asks for on a document of one chain, for its first
\* rule
IntentErrors(doc) ==
    LET chain == doc.chains[1]
        rule == chain.rules[1]
    IN (IF chain.name # "main" THEN {<< "no_main_chain", "", 0, "" >>} ELSE {})
       \cup (IF rule.jump # "" /\ rule.jump # chain.name
             THEN {<< "jump_target", chain.name, 0, rule.jump >>} ELSE {})
       \cup {<< "unknown_intent", chain.name, 0, ref >> :
               ref \in {ref \in {rule.subject_intent, rule.email_intent} :
                           UnknownIntent(doc, ref)}}

IntentImported(p) ==
    /\ pc[p] = "idle"
    /\ res[p].op = "import"
    /\ res[p].call.text \in {doc.text : doc \in IntentDocs}

\* C26: validate_rules reports every rule whose subject_intent or
\* email_intent is a name that is neither a built-in intent nor an intent of
\* the document, together with the missing main chain and the jump to a
\* chain that does not exist, and the import raises with all of them.
C26_UnknownIntentsReported ==
    \A p \in clients :
        IntentImported(p)
            => LET expected == IntentErrors(IntentDocOfText(res[p].call.text))
               IN IF expected = {}
                  THEN res[p].status = "ok"
                  ELSE /\ res[p].status = "error"
                       /\ res[p].err = "invalid_config"
                       /\ res[p].errors = expected
                       /\ Tables = snap[p]

(* ------------------------ alerter: the rate limiter --------------------- *)
\* the last clock reading a run takes
MaxTime == 4

\* the cooldowns a caller passes: none, some that elapse within a run, and
\* one that does not
Cooldowns == {0, 1, 2, 10}
\* the keys the direct calls use
LimiterKeys == {ErrorKey(c, "api_rate_limited") : c \in Containers}

\* the clock moves on
Tick ==
    /\ now < MaxTime
    /\ now' = now + 1
    /\ UNCHANGED << last_alert, warning_counts, last_reset, daemon_lock, thread,
                    alerted, counted, reported >>
    /\ UNCHANGED << store_vars, queue_vars >>

\* variant: the cooldown has to be exceeded
Allows_Strict(cooldown_minutes, last, t) ==
    \/ cooldown_minutes = 0
    \/ last = NULL
    \/ (t - last) > cooldown_minutes

\* rate_limiter.py 29-41: the answer of should_alert at the clock reading t
\* when the key's entry of last_alert is last (NULL: no entry)
Allows(cooldown_minutes, last, t) ==
    \/ cooldown_minutes = 0
    \/ last = NULL
    \/ (t - last) >= cooldown_minutes

\* rate_limiter.py 19-41: should_alert records the time of an alert it allows;
\* alerted keeps the call, the time of the alert allowed last for the key
\* before it, and the limiter's table before it
should_alert(error_key, cooldown_minutes) ==
    LET returned == Allows(cooldown_minutes, last_alert[error_key], now)
    IN /\ last_alert' = IF returned THEN [last_alert EXCEPT ![error_key] = now]
                                    ELSE last_alert
       /\ alerted' = [call |-> [error_key |-> error_key,
                                cooldown_minutes |-> cooldown_minutes,
                                at |-> now, previous |-> alerted.sent[error_key],
                                before |-> last_alert, returned |-> returned],
                      sent |-> IF returned THEN [alerted.sent EXCEPT ![error_key] = now]
                                           ELSE alerted.sent]

\* a caller asks the limiter
CallShouldAlert ==
    \E k \in LimiterKeys, c \in Cooldowns :
        /\ should_alert(k, c)
        /\ UNCHANGED << warning_counts, last_reset, now, daemon_lock, thread,
                        counted, reported >>
        /\ UNCHANGED << store_vars, queue_vars >>

InitLimiter == EmptyStore /\ IdleClients({}, 0)
NextLimiter == Tick \/ CallShouldAlert
SpecLimiter == InitLimiter /\ [][NextLimiter]_vars

\* C27: should_alert returns true exactly when the cooldown is 0, or no alert
\* was allowed for the key before, or at least cooldown minutes have passed
\* since the alert allowed last for the key; so with a positive cooldown an
\* allowed alert is at least the cooldown after the one allowed before it, and
\* the call leaves what the limiter holds for every other key as it was.
C27_AlertAllowedAfterCooldown ==
    LET c == alerted.call
    IN c.at # NULL =>
          /\ c.returned <=> \/ c.cooldown_minutes = 0
                            \/ c.previous = NULL
                            \/ c.at - c.previous >= c.cooldown_minutes
          /\ (c.returned /\ c.cooldown_minutes > 0 /\ c.previous # NULL)
                => c.at - c.previous >= c.cooldown_minutes
          /\ \A k \in ErrorKeys \ {c.error_key} :
                /\ last_alert[k] = c.before[k]
                /\ alerted.sent[k] = c.before[k]

\* an alert allowed exactly the cooldown after the one before it, while the
\* other key has an alert of its own on record
C27_Witness ==
    LET c == alerted.call
    IN /\ c.at # NULL
       /\ c.returned
       /\ c.cooldown_minutes > 0
       /\ c.previous # NULL
       /\ c.at - c.previous = c.cooldown_minutes
       /\ \E k \in LimiterKeys \ {c.error_key} : last_alert[k] # NULL

(* --------------------------- alerter: the daemon ------------------------ *)
\* the lines a tailer reads that match a pattern
MaxLines == 2

SetThread(t, position, classification, counts) ==
    thread' = [thread EXCEPT ![t] = [@ EXCEPT !.pc = position,
                                              !.classification = classification,
                                              !.counts = counts]]

\* daemon.py 156-176 and 80-89: the tailer of a container hands a line to
\* _process_log_line, and classify matches it against the pattern of a title
ReadLine(t) ==
    \E title \in Titles :
        /\ t \in Containers
        /\ thread[t].pc = "idle"
        /\ thread[t].lines < MaxLines
        /\ thread' = [thread EXCEPT ![t] = [@ EXCEPT !.pc = "acquire", !.lines = @ + 1,
                                     !.classification = classify(t, title)]]
        /\ UNCHANGED << last_alert, warning_counts, last_reset, now, daemon_lock,
                        alerted, counted, reported >>
        /\ UNCHANGED << store_vars, queue_vars >>

\* daemon.py 264-267: the scheduler runs the daily summary
StartSummary ==
    /\ thread[Scheduler].pc = "idle"
    /\ SetThread(Scheduler, "acquire", NoClassification, NoCounts)
    /\ UNCHANGED << last_alert, warning_counts, last_reset, now, daemon_lock,
                    alerted, counted, reported >>
    /\ UNCHANGED << store_vars, queue_vars >>

\* variant: the summary does not take the lock
Acquire_SummaryUnlocked(t) ==
    /\ thread[t].pc = "acquire"
    /\ IF t = Scheduler
       THEN UNCHANGED daemon_lock
       ELSE daemon_lock = NoThread /\ daemon_lock' = t
    /\ SetThread(t, "locked", thread[t].classification, thread[t].counts)
    /\ UNCHANGED << last_alert, warning_counts, last_reset, now, alerted, counted,
                    reported >>
    /\ UNCHANGED << store_vars, queue_vars >>

\* daemon.py 91 and 189: with self._lock, entered when no thread holds it
Acquire(t) ==
    /\ thread[t].pc = "acquire"
    /\ daemon_lock = NoThread
    /\ daemon_lock' = t
    /\ SetThread(t, "locked", thread[t].classification, thread[t].counts)
    /\ UNCHANGED << last_alert, warning_counts, last_reset, now, alerted, counted,
                    reported >>
    /\ UNCHANGED << store_vars, queue_vars >>

\* rate_limiter.py 43-45
increment_warning(error_key) ==
    /\ warning_counts' = [warning_counts EXCEPT ![error_key] = @ + 1]
    /\ counted' = [counted EXCEPT ![error_key] = @ + 1]

\* rate_limiter.py 47-49: the entries of warning_counts (0: no entry)
get_warning_counts == warning_counts

\* daemon.py 92-150: the body of _process_log_line under the lock; a critical
\* or high line asks the limiter and sends the alert it allows, a warning is
\* counted
ProcessLocked(t) ==
    /\ t \in Containers
    /\ thread[t].pc = "locked"
    /\ LET c == thread[t].classification
       IN IF c.severity \in {"CRITICAL", "HIGH"}
          THEN /\ should_alert(c.error_key, c.cooldown_minutes)
               /\ UNCHANGED << warning_counts, counted >>
          ELSE /\ increment_warning(c.error_key)
               /\ UNCHANGED << last_alert, alerted >>
    /\ SetThread(t, "release", NoClassification, NoCounts)
    /\ UNCHANGED << last_reset, now, daemon_lock, reported >>
    /\ UNCHANGED << store_vars, queue_vars >>

\* rate_limiter.py 56: counts = dict(self.warning_counts)
ResetCopy ==
    /\ thread[Scheduler].pc = "locked"
    /\ SetThread(Scheduler, "clear", NoClassification, warning_counts)
    /\ UNCHANGED << last_alert, warning_counts, last_reset, now, daemon_lock,
                    alerted, counted, reported >>
    /\ UNCHANGED << store_vars, queue_vars >>

\* rate_limiter.py 57-59: clear, last_reset, return counts
ResetClear ==
    /\ thread[Scheduler].pc = "clear"
    /\ warning_counts' = NoCounts
    /\ last_reset' = now
    /\ reported' = [k \in ErrorKeys |-> reported[k] + thread[Scheduler].counts[k]]
    /\ SetThread(Scheduler, "release", NoClassification, thread[Scheduler].counts)
    /\ UNCHANGED << last_alert, now, daemon_lock, alerted, counted >>
    /\ UNCHANGED << store_vars, queue_vars >>

\* the end of the with block: the thread gives up the lock; the scheduler
\* goes on to send the summary (daemon.py 192-224)
ReleaseLock(t) ==
    /\ thread[t].pc = "release"
    /\ daemon_lock' = IF daemon_lock = t THEN NoThread ELSE daemon_lock
    /\ SetThread(t, IF t = Scheduler THEN "send" ELSE "idle", NoClassification,
                 thread[t].counts)
    /\ UNCHANGED << last_alert, warning_counts, last_reset, now, alerted, counted,
                    reported >>
    /\ UNCHANGED << store_vars, queue_vars >>

\* daemon.py 192-224: the summary is sent
SendSummary ==
    /\ thread[Scheduler].pc = "send"
    /\ SetThread(Scheduler, "idle", NoClassification, NoCounts)
    /\ UNCHANGED << last_alert, warning_counts, last_reset, now, daemon_lock,
                    alerted, counted, reported >>
    /\ UNCHANGED << store_vars, queue_vars >>

\* the run is short against the clock: no reading of it changes meanwhile
InitDaemon == EmptyStore /\ IdleClients({}, 0)
NextDaemon ==
    \/ StartSummary
    \/ ResetCopy
    \/ ResetClear
    \/ SendSummary
    \/ \E t \in Threads : ReadLine(t) \/ Acquire(t) \/ ProcessLocked(t) \/ ReleaseLock(t)
SpecDaemon == InitDaemon /\ [][NextDaemon]_vars

\* C28: for every key get_warning_counts is the number of increment_warning
\* calls that no reset has returned yet; the reset returns the counts as they
\* are when it runs and leaves no count behind, whatever log lines the
\* tailers process meanwhile.
C28_WarningsReturnedOnce ==
    /\ \A k \in ErrorKeys : get_warning_counts[k] = counted[k] - reported[k]
    /\ thread[Scheduler].pc = "clear" => thread[Scheduler].counts = get_warning_counts
    /\ thread[Scheduler].pc = "release" => get_warning_counts = NoCounts

\* a tailer waits with one more warning for a key while the summary holds the
\* lock between taking its copy, with a count for that key, and clearing
C28_Witness ==
    \E t \in Containers :
        /\ thread[t].pc = "acquire"
        /\ thread[t].classification.severity = "WARNING"
        /\ thread[Scheduler].pc = "clear"
        /\ daemon_lock = Scheduler
        /\ thread[Scheduler].counts[thread[t].classification.error_key] > 0

(* ------------------------- queue: drop_partition ------------------------ *)
\* the ids of the rows yesterday's partition holds when the run starts, and
\* the statuses they may have then: the first has failed, the second is
\* pending or completed
OldJobs == {1, 2}
OldStatuses(i) == IF i = 1 THEN {"failed"} ELSE {"pending", "completed"}
\* the jobs other connections enqueue and the status changes they make in a
\* run, taken together
MaxEvents == 1
\* the calls of the partition manager in a run
MaxCalls == 1

\* the dates of the run: NOW() and date.today() fall on Today
Yesterday == "yesterday"
Today == "today"
Tomorrow == "tomorrow"
Dates == {Yesterday, Today, Tomorrow}
\* the dates in the order of their partition names, and as days from today
DateOrder == << Yesterday, Today, Tomorrow >>
DateNo(d) == CASE d = Yesterday -> 0 - 1 [] d = Today -> 0 [] OTHER -> 1
\* the values of --retention-days and --days-ahead of the run
RetentionDays == {0 - 1, 0}
DaysAhead == {0, 1}

\* partitions.py 109: partition_name = f"queue_{partition_date...}"
PartitionName(partition_date) == << "queue", partition_date >>

\* the rows of a partition: the rows whose created_at is in its range
PartitionRows(rows, partition_date) == {r \in rows : r.created_at = partition_date}
WithStatus(rows, statuses) == {r \in rows : r.status \in statuses}
\* the places the rows of an INSERT ... SELECT without ORDER BY can come in:
\* the SELECT yields them in any order, and the serial column numbers them
\* as they come
ScanOrders(rows) ==
    {f \in [rows -> 0 .. Cardinality(rows) - 1] :
        \A a, b \in rows : a # b => f[a] # f[b]}

\* yesterday's partition with its rows, and today's partition unless it has
\* not been created yet
InitDrop ==
    /\ EmptyStore
    /\ Connections({}, 0)
    /\ InitAlerter
    /\ partitions \in {{Yesterday, Today}, {Yesterday}}
    /\ \E st \in {f \in [OldJobs -> Statuses] : \A i \in OldJobs : f[i] \in OldStatuses(i)} :
          queue = {[id |-> i, payload |-> JsonObject(i), status |-> st[i],
                    created_at |-> Yesterday] :
                      i \in OldJobs}
    /\ dead_letter = {}
    /\ queue_serial = [queue |-> Cardinality(OldJobs) + 1, dead_letter |-> 1,
                       payload |-> Cardinality(OldJobs) + 1, events |-> 0, calls |-> 0]
    /\ share_lock = {}
    /\ dropper = IdleDropper
    /\ retrier = [c \in Retriers |-> IdleRetrier]
    /\ queue_tables = Partitioned
    /\ migrator = IdleMigrator

\* migrate.py 204: ALTER TABLE queue RENAME takes the exclusive lock on the
\* table, which the migrating transaction holds until it ends
QueueLocked == migrator.pc = "commit"

\* a partitioned queue has no partition for a row of today: the INSERT is
\* refused ("no partition of relation queue found for row") after the id
\* default has taken its value from the sequence
NoPartitionForToday == queue_tables.partitioned /\ Today \notin partitions

\* another connection enqueues a job: INSERT INTO queue (...) VALUES (...,
\* 'pending', 0, NOW()) as in dead_letter.py 155-156, committed at once.  In
\* a partitioned queue the row goes to today's partition and waits while
\* that is locked.  The primary key (id, created_at) of migrate.py 39 has
\* the instant of NOW() in it, so a row with an id that another row has is
\* stored as well.
Enqueue ==
    /\ queue_serial.events < MaxEvents
    /\ ~QueueLocked
    /\ Today \notin share_lock
    /\ queue' = IF NoPartitionForToday
                THEN queue
                ELSE queue \cup {[id |-> queue_serial.queue,
                                  payload |-> JsonObject(queue_serial.payload),
                                  status |-> "pending", created_at |-> Today]}
    /\ queue_serial' = [queue_serial EXCEPT !.queue = @ + 1, !.payload = @ + 1,
                                            !.events = @ + 1]
    /\ UNCHANGED << partitions, dead_letter, share_lock, dropper >>
    /\ UNCHANGED << store_vars, alerter_vars, retrier, migrate_vars >>

\* migrate.py 36-38: the CHECK constraint on status is all the schema asks
\* of an UPDATE, so a job can be given any status
NextStatuses(status) == Statuses \ {status}

\* another connection changes the status of a job (UPDATE queue SET status),
\* committed at once; it waits while the partition of the row is locked
ChangeStatus ==
    \E r \in queue : \E status \in NextStatuses(r.status) :
        /\ queue_serial.events < MaxEvents
        /\ ~QueueLocked
        /\ r.created_at \notin share_lock
        /\ queue' = (queue \ {r}) \cup {[r EXCEPT !.status = status]}
        /\ queue_serial' = [queue_serial EXCEPT !.events = @ + 1]
        /\ UNCHANGED << partitions, dead_letter, share_lock, dropper >>
        /\ UNCHANGED << store_vars, alerter_vars, retrier, migrate_vars >>

DropStep(position, d) ==
    /\ dropper' = [d EXCEPT !.pc = position]
    /\ UNCHANGED << partitions, queue, dead_letter >>
    /\ UNCHANGED << store_vars, alerter_vars, retrier, migrate_vars >>

\* partitions.py 292-298: drop_old_partitions adds a result to its totals
AddResult(totals, result) ==
    IF result.skipped_active > 0
    THEN [totals EXCEPT !.partitions_skipped = @ + 1]
    ELSE [totals EXCEPT !.partitions_dropped = @ + 1,
                        !.rows_dropped = @ + result.dropped_rows,
                        !.failed_archived = @ + result.archived_failed,
                        !.requeued = @ + result.requeued]

\* drop_partition returns or raises.  The transaction ends with the commit
\* after DROP TABLE (partitions.py 220-221) and with an error of one of its
\* statements; the returns at 113, 146-151 and after a dry run leave it open
\* with the SHARE locks it holds.  drop_old_partitions goes on to its next
\* partition (partitions.py 285-298); an exception leaves it, too.
DropReturn(status, skipped_active) ==
    LET result == [status |-> status,
                   archived_failed |-> IF status \in {"dropped", "dry_run"}
                                       THEN dropper.archived ELSE 0,
                   requeued |-> IF status \in {"dropped", "dry_run"}
                                THEN dropper.requeued ELSE 0,
                   dropped_rows |-> IF status \in {"dropped", "dry_run"}
                                    THEN dropper.row_count ELSE 0,
                   skipped_active |-> skipped_active]
        looping == dropper.caller \in {"drop_old_partitions", "maintain"}
                      /\ status # "error"
    IN /\ dropper' =
             [IdleDropper EXCEPT
                 !.pc = IF looping THEN "old_next" ELSE "returned",
                 !.caller = dropper.caller,
                 !.call = IF looping THEN [dropper.call EXCEPT !.partition_date = ""]
                          ELSE NoDropCall,
                 !.todo = IF looping THEN dropper.todo ELSE << >>,
                 !.created = IF status = "error" THEN 0 ELSE dropper.created,
                 !.totals = IF looping THEN AddResult(dropper.totals, result)
                            ELSE NoTotals,
                 !.result = result]
       /\ share_lock' = IF status \in {"dropped", "error"} THEN {} ELSE share_lock
       /\ UNCHANGED << store_vars, alerter_vars, retrier, migrate_vars >>

\* the run has a call left
CallBudget ==
    /\ queue_serial.calls < MaxCalls
    /\ queue_serial' = [queue_serial EXCEPT !.calls = @ + 1]

\* cli.py 166-202: partitions drop --date ... [--force] [--dry-run] on a new
\* connection; the method (partitions.py 87-93) also takes archive_failed
DropCall ==
    \E partition_date \in Dates, archive_failed, force, dry_run \in BOOLEAN :
        /\ dropper.pc = "idle"
        /\ CallBudget
        /\ DropStep("exists",
                    [IdleDropper EXCEPT !.caller = "drop_partition",
                                        !.call =
                        [partition_date |-> partition_date,
                         archive_failed |-> archive_failed, force |-> force,
                         dry_run |-> dry_run]])
        /\ UNCHANGED share_lock

\* partitions.py 249-255: drop_old_partitions is called on a new connection
DropOldCall ==
    \E retention_days \in RetentionDays, archive_failed, force, dry_run \in BOOLEAN :
        /\ dropper.pc = "idle"
        /\ CallBudget
        /\ DropStep("old_list",
                    [IdleDropper EXCEPT !.caller = "drop_old_partitions",
                                        !.retention_days = retention_days,
                                        !.call =
                        [partition_date |-> "",
                         archive_failed |-> archive_failed, force |-> force,
                         dry_run |-> dry_run]])
        /\ UNCHANGED share_lock

\* partitions.py 240-243: the dates create_future_partitions goes through,
\* from today to days_ahead days on
FutureDates(days_ahead) == [i \in 1 .. days_ahead + 1 |-> DateOrder[i + 1]]

\* cli.py 132-158 with --date, partitions.py 59: create_partition is called
\* on a new connection
CreateCall ==
    \E partition_date \in Dates, dry_run \in BOOLEAN :
        /\ dropper.pc = "idle"
        /\ CallBudget
        /\ DropStep("is_partitioned",
                    [IdleDropper EXCEPT !.caller = "create_partition",
                                        !.call.dry_run = dry_run,
                                        !.to_create = << partition_date >>])
        /\ UNCHANGED share_lock

\* cli.py 144-161 without --date, partitions.py 234-240
CreateFutureCall ==
    \E days_ahead \in DaysAhead, dry_run \in BOOLEAN :
        /\ dropper.pc = "idle"
        /\ CallBudget
        /\ DropStep("is_partitioned",
                    [IdleDropper EXCEPT !.caller = "create_future_partitions",
                                        !.call.dry_run = dry_run,
                                        !.to_create = FutureDates(days_ahead)])
        /\ UNCHANGED share_lock

\* cli.py 220-246, partitions.py 308-334: after the check maintain creates the partitions of
\* the next days and then calls drop_old_partitions with archive_failed and
\* without force
MaintainCall ==
    \E retention_days \in RetentionDays, days_ahead \in DaysAhead, dry_run \in BOOLEAN :
        /\ dropper.pc = "idle"
        /\ CallBudget
        /\ DropStep("is_partitioned",
                    [IdleDropper EXCEPT !.caller = "maintain",
                                        !.retention_days = retention_days,
                                        !.call =
                        [partition_date |-> "", archive_failed |-> TRUE,
                         force |-> FALSE, dry_run |-> dry_run],
                                        !.to_create = FutureDates(days_ahead)])
        /\ UNCHANGED share_lock

\* create_partition has returned: create_future_partitions counts it and
\* goes on with the next date (partitions.py 242-247), maintain goes on with
\* drop_old_partitions (329-334)
AfterCreate(was_created) ==
    LET rest == Tail(dropper.to_create)
    IN [dropper EXCEPT !.pc = IF rest # << >> THEN "create_exists"
                              ELSE IF dropper.caller = "maintain" THEN "old_list"
                              ELSE "returned",
                       !.to_create = rest,
                       !.created = IF was_created THEN @ + 1 ELSE @]

\* cli.py 149-151 and 238-240, partitions.py 345-357: partitions create and
\* partitions maintain return at once when queue is not partitioned
CreateCheck ==
    /\ dropper.pc = "is_partitioned"
    /\ DropStep(IF queue_tables.partitioned THEN "create_exists" ELSE "returned",
                dropper)
    /\ UNCHANGED << queue_serial, share_lock >>

\* partitions.py 64-69: a partition that exists is not created again
CreateExists ==
    /\ dropper.pc = "create_exists"
    /\ dropper' = IF Head(dropper.to_create) \in partitions
                  THEN AfterCreate(FALSE)
                  ELSE [dropper EXCEPT !.pc = "create_table"]
    /\ UNCHANGED << partitions, queue, dead_letter, queue_serial, share_lock >>
    /\ UNCHANGED << store_vars, alerter_vars, retrier, migrate_vars >>

\* partitions.py 71-85: CREATE TABLE ... PARTITION OF queue and commit; a dry
\* run issues no statement and returns True
CreateTable ==
    /\ dropper.pc = "create_table"
    /\ dropper' = AfterCreate(TRUE)
    /\ IF dropper.call.dry_run
       THEN UNCHANGED << partitions, share_lock >>
       ELSE /\ partitions' = partitions \cup {Head(dropper.to_create)}
            /\ share_lock' = {}
    /\ UNCHANGED << queue, dead_letter, queue_serial >>
    /\ UNCHANGED << store_vars, alerter_vars, retrier, migrate_vars >>

\* partitions.py 264-265 and 273-285: the partitions of list_partitions, in
\* the order of their names, that are older than the cutoff
OldPartitions(retention_days) ==
    SelectSeq(DateOrder,
              LAMBDA d : d \in partitions /\ DateNo(d) < 0 - retention_days)

DropOldList ==
    /\ dropper.pc = "old_list"
    /\ DropStep("old_next",
                [dropper EXCEPT !.todo = OldPartitions(dropper.retention_days)])
    /\ UNCHANGED << queue_serial, share_lock >>

\* partitions.py 273-291: drop_partition is called for the next old
\* partition, on the same connection; 300-306: after the last the totals are
\* returned
DropOldNext ==
    /\ dropper.pc = "old_next"
    /\ IF dropper.todo = << >>
       THEN DropStep("returned", dropper)
       ELSE DropStep("exists",
                     [dropper EXCEPT !.call.partition_date = Head(dropper.todo),
                                     !.todo = Tail(@)])
    /\ UNCHANGED << queue_serial, share_lock >>

\* cli.py 163, 217, 258: the caller closes the connection, which
\* rolls back what is not committed and releases the locks
DropClose ==
    /\ dropper.pc = "returned"
    /\ DropStep("idle", IdleDropper)
    /\ share_lock' = {}
    /\ UNCHANGED queue_serial

\* partitions.py 111-113
DropExists ==
    /\ dropper.pc = "exists"
    /\ IF dropper.call.partition_date \in partitions
       THEN /\ DropStep("lock", dropper)
            /\ UNCHANGED share_lock
       ELSE /\ UNCHANGED << partitions, queue, dead_letter >>
            /\ DropReturn("missing", 0)
    /\ UNCHANGED queue_serial

\* partitions.py 122: LOCK TABLE ... IN SHARE MODE
DropLock ==
    /\ dropper.pc = "lock"
    /\ share_lock' = share_lock \cup {dropper.call.partition_date}
    /\ DropStep("count", dropper)
    /\ UNCHANGED queue_serial

\* partitions.py 125-151: the counts by status; without force a partition
\* with active jobs is skipped
DropCount ==
    /\ dropper.pc = "count"
    /\ LET rows == PartitionRows(queue, dropper.call.partition_date)
           pending_count == Cardinality(WithStatus(rows, {"pending"}))
           processing_count == Cardinality(WithStatus(rows, {"processing"}))
           failed_count == Cardinality(WithStatus(rows, {"failed"}))
           active_count == pending_count + processing_count
       IN IF active_count > 0 /\ ~dropper.call.force
          THEN /\ UNCHANGED << partitions, queue, dead_letter >>
               /\ DropReturn("skipped_active", active_count)
          ELSE /\ DropStep(IF active_count > 0 THEN "requeue" ELSE "archive",
                           [dropper EXCEPT !.pending = pending_count,
                                           !.processing = processing_count,
                                           !.failed = failed_count,
                                           !.row_count = Cardinality(rows)])
               /\ UNCHANGED share_lock
    /\ UNCHANGED queue_serial

\* partitions.py 153-179: INSERT INTO queue ... SELECT ..., 'pending', 0, ...,
\* NOW() FROM the partition WHERE status IN ('pending', 'processing'); the new
\* rows go to today's partition, and the statement fails when there is none,
\* at its first row, whose id has been taken from the sequence by then
DropRequeue ==
    /\ dropper.pc = "requeue"
    /\ LET active == WithStatus(PartitionRows(queue \cup dropper.tx.queue,
                                              dropper.call.partition_date),
                                ActiveStatuses)
       IN \E place \in ScanOrders(active) :
          LET inserted == {[id |-> queue_serial.queue + place[r],
                            payload |-> r.payload, status |-> "pending",
                            created_at |-> Today] : r \in active}
          IN
          IF dropper.call.dry_run
          THEN /\ DropStep("archive",
                           [dropper EXCEPT !.requeued =
                               dropper.pending + dropper.processing])
               /\ UNCHANGED << queue_serial, share_lock >>
          ELSE IF Today \notin partitions
          THEN /\ UNCHANGED << partitions, queue, dead_letter >>
               /\ queue_serial' = [queue_serial EXCEPT !.queue = @ + 1]
               /\ DropReturn("error", 0)
          ELSE /\ DropStep("archive",
                           [dropper EXCEPT !.requeued = Cardinality(inserted),
                                           !.tx.queue = @ \cup inserted])
               /\ queue_serial' = [queue_serial EXCEPT !.queue = @ + Cardinality(active)]
               /\ UNCHANGED share_lock

\* variant: the failed jobs are not archived
DropArchive_Skips ==
    /\ dropper.pc = "archive"
    /\ DropStep("drop", dropper)
    /\ UNCHANGED << queue_serial, share_lock >>

\* partitions.py 181-210: INSERT INTO dead_letter (original_id, ..., failed_at,
\* archived_from_partition) SELECT id, ..., NOW(), partition_name FROM the
\* partition WHERE status = 'failed'
DropArchive ==
    /\ dropper.pc = "archive"
    /\ LET failed_rows == WithStatus(PartitionRows(queue \cup dropper.tx.queue,
                                                   dropper.call.partition_date),
                                     {"failed"})
       IN \E place \in ScanOrders(failed_rows) :
          LET inserted == {[id |-> queue_serial.dead_letter + place[r],
                            original_id |-> r.id, payload |-> r.payload,
                            failed_at |-> Today,
                            archived_from_partition |->
                                PartitionName(dropper.call.partition_date)] :
                              r \in failed_rows}
          IN
          IF dropper.call.archive_failed /\ dropper.failed > 0
          THEN IF dropper.call.dry_run
               THEN /\ DropStep("drop", [dropper EXCEPT !.archived = dropper.failed])
                    /\ UNCHANGED queue_serial
               ELSE /\ DropStep("drop",
                                [dropper EXCEPT !.archived = Cardinality(inserted),
                                                !.tx.dead_letter = @ \cup inserted])
                    /\ queue_serial' = [queue_serial EXCEPT !.dead_letter =
                                            @ + Cardinality(failed_rows)]
          ELSE /\ DropStep("drop", dropper)
               /\ UNCHANGED queue_serial
    /\ UNCHANGED share_lock

\* partitions.py 212-232: DROP TABLE and commit: the rows the transaction
\* inserted become visible, and the partition is gone with every row in it
DropTable ==
    /\ dropper.pc = "drop"
    /\ IF dropper.call.dry_run
       THEN /\ UNCHANGED << partitions, queue, dead_letter >>
            /\ DropReturn("dry_run", 0)
       ELSE /\ partitions' = partitions \ {dropper.call.partition_date}
            /\ queue' = (queue \cup dropper.tx.queue)
                           \ PartitionRows(queue \cup dropper.tx.queue,
                                           dropper.call.partition_date)
            /\ dead_letter' = dead_letter \cup dropper.tx.dead_letter
            /\ DropReturn("dropped", 0)
    /\ UNCHANGED queue_serial

\* the positions at which the call issues a statement: the SELECTs of
\* is_table_partitioned (partitions.py 347-357), list_partitions (26-40) and
\* partition_exists (47-57), LOCK
\* TABLE (122) and the counts (125-129) in every call, the INSERTs, DROP
\* TABLE with the commit and CREATE TABLE with the commit unless it is a dry
\* run, the INSERT INTO dead_letter when failed jobs are to be archived
IssuesStatement(d) ==
    \/ d.pc \in {"is_partitioned", "old_list", "exists", "create_exists", "lock",
                 "count"}
    \/ ~d.call.dry_run /\ d.pc \in {"requeue", "drop", "create_table"}
    \/ ~d.call.dry_run /\ d.pc = "archive" /\ d.call.archive_failed /\ d.failed > 0

\* a statement of the call raises (the connection is lost, the statement is
\* cancelled): the transaction is aborted, nothing of it is committed and
\* the exception leaves the method and its callers
DropFails ==
    /\ IssuesStatement(dropper)
    /\ UNCHANGED << partitions, queue, dead_letter, queue_serial >>
    /\ DropReturn("error", 0)

NextDrop ==
    \/ Enqueue
    \/ ChangeStatus
    \/ DropCall
    \/ DropOldCall
    \/ CreateCall
    \/ CreateFutureCall
    \/ MaintainCall
    \/ CreateCheck
    \/ CreateExists
    \/ CreateTable
    \/ DropOldList
    \/ DropOldNext
    \/ DropExists
    \/ DropLock
    \/ DropCount
    \/ DropRequeue
    \/ DropArchive
    \/ DropTable
    \/ DropFails
    \/ DropClose
SpecDrop == InitDrop /\ [][NextDrop]_vars

\* the positions inside drop_partition
DropPcs == {"exists", "lock", "count", "requeue", "archive", "drop"}
\* the step with which the running call of drop_partition returns or raises
DropEnds == dropper.pc \in DropPcs /\ dropper'.pc \notin DropPcs
\* the jobs of the partition the call names, before that step
ActiveBefore == WithStatus(PartitionRows(queue, dropper.call.partition_date),
                           ActiveStatuses)
FailedBefore == WithStatus(PartitionRows(queue, dropper.call.partition_date),
                           {"failed"})

\* what the step that ends a call keeps of the active jobs of the partition
NoActiveJobLost ==
    DropEnds =>
        /\ (~dropper.call.force /\ ActiveBefore # {})
              => /\ dropper.call.partition_date \in partitions'
                 /\ queue' = queue
        /\ \A j \in ActiveBefore :
              \E n \in queue' :
                  /\ n.payload = j.payload
                  /\ n.status \in ActiveStatuses
                  /\ n.created_at \in partitions'
        /\ (dropper'.result.status = "dropped" /\ dropper.call.force)
              => \A j \in ActiveBefore :
                    \E n \in queue' : n.payload = j.payload /\ n.status = "pending"
\* C29: a call of drop_partition loses no pending or processing job: without
\* force a partition that holds one is still there when the call ends, with
\* the queue unchanged, and with force every such job has a pending row in a
\* partition that exists once the partition has been dropped.
C29_NoActiveJobLost == [][NoActiveJobLost]_vars

\* what the step that ends a call does with the failed jobs of the partition
FailedJobsArchivedWithDrop ==
    DropEnds =>
        /\ (dropper'.result.status = "dropped" /\ dropper.call.archive_failed)
              => \A j \in FailedBefore :
                    /\ j \notin queue'
                    /\ \E x \in dead_letter' :
                          /\ x \notin dead_letter
                          /\ x.original_id = j.id
                          /\ x.payload = j.payload
                          /\ x.archived_from_partition
                               = PartitionName(dropper.call.partition_date)
        /\ dropper'.result.status # "dropped"
              => /\ dead_letter' = dead_letter
                 /\ partitions' = partitions
                 /\ queue' = queue
\* C30: when a call with archive_failed drops a partition, every failed job
\* of the partition has a dead_letter row with its id and the partition name
\* from the step on that removes the partition; a call that ends without
\* committing the drop adds no dead_letter row and removes nothing.
C30_FailedJobsArchivedWithDrop == [][FailedJobsArchivedWithDrop]_vars

\* a forced drop with archive_failed has archived a failed job and put an
\* active one back
C30_Witness ==
    /\ dropper.result.status = "dropped"
    /\ dropper.result.archived_failed > 0
    /\ dropper.result.requeued > 0
    /\ \E x \in dead_letter : x.archived_from_partition[2] \notin partitions

(* ---------------------- queue: migrate_to_partitioned ------------------ *)
\* the values of --days-ahead of the run
MigrateDaysAhead == {0, 1}

\* a queue table that is not partitioned yet, with the rows of yesterday
InitMigrate ==
    /\ EmptyStore
    /\ Connections({}, 0)
    /\ InitAlerter
    /\ partitions = {}
    /\ \E st \in {f \in [OldJobs -> Statuses] : \A i \in OldJobs : f[i] \in OldStatuses(i)} :
          queue = {[id |-> i, payload |-> JsonObject(i), status |-> st[i],
                    created_at |-> Yesterday] :
                      i \in OldJobs}
    /\ dead_letter = {}
    /\ queue_serial = [queue |-> Cardinality(OldJobs) + 1, dead_letter |-> 1,
                       payload |-> Cardinality(OldJobs) + 1, events |-> 0, calls |-> 0]
    /\ share_lock = {}
    /\ dropper = IdleDropper
    /\ retrier = [c \in Retriers |-> IdleRetrier]
    /\ queue_tables = [partitioned |-> FALSE, old |-> FALSE, old_rows |-> {}]
    /\ migrator = IdleMigrator

MigrateStep(position, m) ==
    /\ migrator' = [m EXCEPT !.pc = position]
    /\ UNCHANGED << partitions, queue, dead_letter, queue_serial, share_lock, dropper,
                    queue_tables >>
    /\ UNCHANGED << store_vars, alerter_vars, retrier >>

\* the function returns or raises and the caller closes the connection
\* (cli.py 475-476, 501-502): what is not committed is rolled back
MigrateReturn(status, partition_count, row_count) ==
    migrator' = [IdleMigrator EXCEPT !.result = [status |-> status,
                                                 partitions |-> partition_count,
                                                 rows |-> row_count]]

\* cli.py 435-455: migrate-queue --days-ahead ... --dry-run or --execute
MigrateCall ==
    \E days_ahead \in MigrateDaysAhead, dry_run \in BOOLEAN :
        /\ migrator.pc = "idle"
        /\ MigrateStep("check", [IdleMigrator EXCEPT !.days_ahead = days_ahead,
                                                     !.dry_run = dry_run])

\* migrate.py 134-141 and 157-171: the dates from min_date to max_date + days_ahead
DateRange(min_date, max_date, days_ahead) ==
    {d \in Dates : DateNo(min_date) <= DateNo(d)
                    /\ DateNo(d) <= DateNo(max_date) + days_ahead}

\* migrate.py 110-113: a partitioned queue is left alone
MigrateCheck ==
    /\ migrator.pc = "check"
    /\ IF queue_tables.partitioned
       THEN /\ MigrateReturn("already_partitioned", 0, 0)
            /\ UNCHANGED << partitions, queue, dead_letter, queue_serial, share_lock,
                            dropper, queue_tables >>
            /\ UNCHANGED << store_vars, alerter_vars, retrier >>
       ELSE MigrateStep("analyze", migrator)

\* migrate.py 44-78 and 116-146: the first and the last date and the number
\* of the rows; an empty table counts as one of today; a dry run returns
\* what would be done
MigrateAnalyze ==
    /\ migrator.pc = "analyze"
    /\ LET min_date == IF queue = {} THEN Today
                       ELSE CHOOSE d \in Dates :
                               /\ \E r \in queue : r.created_at = d
                               /\ \A r \in queue : DateNo(d) <= DateNo(r.created_at)
           max_date == IF queue = {} THEN Today
                       ELSE CHOOSE d \in Dates :
                               /\ \E r \in queue : r.created_at = d
                               /\ \A r \in queue : DateNo(r.created_at) <= DateNo(d)
           total_rows == Cardinality(queue)
       IN IF migrator.dry_run
          THEN /\ MigrateReturn("dry_run",
                                Cardinality(DateRange(min_date, max_date,
                                                      migrator.days_ahead)),
                                total_rows)
               /\ UNCHANGED << partitions, queue, dead_letter, queue_serial, share_lock,
                               dropper, queue_tables >>
               /\ UNCHANGED << store_vars, alerter_vars, retrier >>
          ELSE MigrateStep("create",
                           [migrator EXCEPT !.analysis =
                               [min_date |-> min_date, max_date |-> max_date,
                                total_rows |-> total_rows]])

\* migrate.py 151-173: CREATE TABLE queue_new and a partition of it for every
\* date of the range
MigrateCreate ==
    /\ migrator.pc = "create"
    /\ MigrateStep("copy",
                   [migrator EXCEPT !.new_partitions =
                       DateRange(migrator.analysis.min_date, migrator.analysis.max_date,
                                 migrator.days_ahead)])

\* migrate.py 175-190: INSERT INTO queue_new ... SELECT ... FROM queue copies
\* the rows that are committed when it runs; a row of a date without a
\* partition makes the statement fail
MigrateCopy ==
    /\ migrator.pc = "copy"
    /\ IF \E r \in queue : r.created_at \notin migrator.new_partitions
       THEN /\ MigrateReturn("error", 0, 0)
            /\ UNCHANGED << partitions, queue, dead_letter, queue_serial, share_lock,
                            dropper, queue_tables >>
            /\ UNCHANGED << store_vars, alerter_vars, retrier >>
       ELSE MigrateStep("verify", [migrator EXCEPT !.new_rows = queue])

\* migrate.py 192-200: the count of queue_new is compared with the count of
\* the analysis; RuntimeError when they differ
MigrateVerify ==
    /\ migrator.pc = "verify"
    /\ IF Cardinality(migrator.new_rows) # migrator.analysis.total_rows
       THEN /\ MigrateReturn("count_mismatch", 0, 0)
            /\ UNCHANGED << partitions, queue, dead_letter, queue_serial, share_lock,
                            dropper, queue_tables >>
            /\ UNCHANGED << store_vars, alerter_vars, retrier >>
       ELSE MigrateStep("swap", migrator)

\* migrate.py 202-205: ALTER TABLE queue RENAME TO queue_old, ALTER TABLE
\* queue_new RENAME TO queue
MigrateSwap ==
    /\ migrator.pc = "swap"
    /\ MigrateStep("commit", migrator)

\* migrate.py 207-253: the indexes, setval and the commit.  The table with
\* the rows is queue_old now, queue holds the copies.  id BIGSERIAL
\* (migrate.py 25) gave queue_new a sequence of its own, which starts at 1;
\* queue_id_seq, which setval moves (241), belongs to the column of queue_old
MigrateCommit ==
    /\ migrator.pc = "commit"
    /\ queue_tables' = [partitioned |-> TRUE, old |-> TRUE, old_rows |-> queue]
    /\ queue' = migrator.new_rows
    /\ partitions' = migrator.new_partitions
    /\ queue_serial' = [queue_serial EXCEPT !.queue = 1]
    /\ MigrateReturn("success", Cardinality(migrator.new_partitions),
                     Cardinality(migrator.new_rows))
    /\ UNCHANGED << dead_letter, share_lock, dropper >>
    /\ UNCHANGED << store_vars, alerter_vars, retrier >>

\* migrate.py 238-239: MAX(id) of the copied rows, 0 when there is none
max_id(rows) ==
    IF rows = {} THEN 0
    ELSE CHOOSE i \in {r.id : r \in rows} : \A r \in rows : r.id <= i

\* a statement of migrate_to_partitioned (migrate.py 110-242), the commit
\* (244) or a statement of drop_old_queue_table (266-283) raises: nothing is
\* committed and the renaming is undone, but what setval (241) did to
\* queue_id_seq, the sequence of the table that is queue again, stays when
\* the failure comes after it
MigrateFails ==
    /\ migrator.pc \in {"check", "analyze", "create", "copy", "verify", "swap",
                        "commit", "old_table"}
    /\ \E next_id \in {queue_serial.queue} \cup
                       (IF migrator.pc = "commit"
                        THEN {max_id(migrator.new_rows) + 1} ELSE {}) :
          queue_serial' = [queue_serial EXCEPT !.queue = next_id]
    /\ MigrateReturn("error", 0, 0)
    /\ UNCHANGED << partitions, queue, dead_letter, share_lock, dropper, queue_tables >>
    /\ UNCHANGED << store_vars, alerter_vars, retrier >>

\* cli.py 479-496: drop-old-queue --dry-run or --execute
DropOldTableCall ==
    \E dry_run \in BOOLEAN :
        /\ migrator.pc = "idle"
        /\ MigrateStep("old_table", [IdleMigrator EXCEPT !.dry_run = dry_run])

\* migrate.py 256-285: False when there is no table queue_old, True after
\* counting its rows in a dry run, else DROP TABLE queue_old and commit
drop_old_queue_table ==
    /\ migrator.pc = "old_table"
    /\ IF ~queue_tables.old
       THEN /\ MigrateReturn("false", 0, 0)
            /\ UNCHANGED queue_tables
       ELSE IF migrator.dry_run
       THEN /\ MigrateReturn("true", 0, Cardinality(queue_tables.old_rows))
            /\ UNCHANGED queue_tables
       ELSE /\ MigrateReturn("true", 0, 0)
            /\ queue_tables' = [queue_tables EXCEPT !.old = FALSE, !.old_rows = {}]
    /\ UNCHANGED << partitions, queue, dead_letter, queue_serial, share_lock, dropper >>
    /\ UNCHANGED << store_vars, alerter_vars, retrier >>

NextMigrate ==
    \/ NextDrop
    \/ MigrateCall
    \/ MigrateCheck
    \/ MigrateAnalyze
    \/ MigrateCreate
    \/ MigrateCopy
    \/ MigrateVerify
    \/ MigrateSwap
    \/ MigrateCommit
    \/ MigrateFails
    \/ DropOldTableCall
    \/ drop_old_queue_table
SpecMigrate == InitMigrate /\ [][NextMigrate]_vars

(* --------------------------- move_rule, result -------------------------- *)
\* the sequence s without the element x
Without(s, x) == SelectSeq(s, LAMBDA e : e # x)

\* the rule ids of the chain in list order, for a well-formed chain
Order(rs, chain_id) ==
    IF Heads(rs, chain_id) = {} THEN << >>
    ELSE Walk(rs, CHOOSE h \in Heads(rs, chain_id) : TRUE, WalkCap)

(* ------------------- move_rule of rules that can be moved --------------- *)
\* One connection on the imported store.  It inserts rules whose JSON-valued
\* fields are text encoded twice, so that the columns hold JSON strings: the
\* cursor returns their text as str, which insert_rule_after can pass to
\* the INSERT again.  It moves those rules and the imported ones.
InitMoveList == ListStore(ListLen) /\ IdleClients({1}, MaxOps + 1)

NextMoveList ==
    \/ \E c \in ChainArgs, a \in AnchorArgs :
          insert_rule_after(1, c, a, TwiceEncoded("x"))
    \/ \E r \in RuleArgs, a \in AnchorArgs : move_rule(1, r, a)
    \/ move_select(1)
    \/ lock_row(1)
    \/ InsertSteps(1)
    \/ DeleteSteps(1)

SpecMoveList == InitMoveList /\ [][NextMoveList]_vars

\* move_rule(rule_id, after_rule_id) with after_rule_id other than rule_id
\* has returned, called on a store whose chains were well-formed
SuccessfulMove(p) ==
    /\ pc[p] = "idle"
    /\ res[p].op = "move"
    /\ res[p].status = "ok"
    /\ res[p].call.after_rule_id # res[p].call.rule_id
    /\ AllWellFormed(snap[p].chains, snap[p].rules)

\* two rows hold the same values, whether a JSON-valued column holds them or
\* a JSON string with the JSON text of them
SameValues(row, other) ==
    [ContentOf(row) EXCEPT !.json = NoJson] = [ContentOf(other) EXCEPT !.json = NoJson]

\* the chain of the moved rule holds the rules it held, in the order they
\* had, with the moved content in a new row right after the anchor (the call
\* returns nothing: the new row is the one that was not stored before)
MovedBehindAnchor(p) ==
    LET old == snap[p].rules
        id == res[p].call.rule_id
        a == res[p].call.after_rule_id
        c == old[id].chain_id
        rest == Without(Order(old, c), id)
        s == Order(rules, c)
    IN /\ WellFormedChain(rules, c)
       /\ Cardinality(Live(rules, c)) = Cardinality(Live(old, c))
       /\ Len(s) = Len(rest) + 1
       /\ \E new \in {r \in RuleIds : Exists(rules, r) /\ ~Exists(old, r)} :
             /\ Without(s, new) = rest
             /\ \E i \in DOMAIN s :
                   /\ s[i] = new
                   /\ IF a = NULL THEN i = 1 ELSE i > 1 /\ s[i - 1] = a
             /\ SameValues(rules[new], old[id])
       /\ \A r \in SeqRange(rest) : SameValues(rules[r], old[r])

\* C31: after a successful move_rule(rule_id, after_rule_id) with
\* after_rule_id other than rule_id, the chain of the rule is well-formed,
\* holds as many rules with the same contents as before, the moved content
\* is right after the anchor (at the head for None), and the other rules
\* keep their order.
C31_MoveKeepsChain ==
    \A p \in clients : SuccessfulMove(p) => MovedBehindAnchor(p)

\* the same for anchors that are None or a rule of the moved rule's chain
C31_MoveInChain ==
    \A p \in clients :
        (/\ SuccessfulMove(p)
         /\ \/ res[p].call.after_rule_id = NULL
            \/ snap[p].rules[res[p].call.after_rule_id].chain_id
                   = snap[p].rules[res[p].call.rule_id].chain_id)
            => MovedBehindAnchor(p)

\* a rule was moved behind a rule of its chain
C31_MoveInChain_Witness ==
    /\ SuccessfulMove(1)
    /\ res[1].call.after_rule_id # NULL
    /\ snap[1].rules[res[1].call.after_rule_id].chain_id
           = snap[1].rules[res[1].call.rule_id].chain_id
    /\ MovedBehindAnchor(1)


(* --------------------- move_rule seen by another reader ----------------- *)
\* Connection 1 inserts rules whose JSON-valued fields are text encoded
\* twice at the head of a chain and moves rules; connection 2 runs
\* traverse_chain meanwhile.
InitMove == ListStore(ListLen) /\ IdleClients({1, 2}, MaxOps)

NextMove ==
    \/ \E c \in StoredChains(chains) :
          insert_rule_after(1, c, NULL, TwiceEncoded("x"))
    \/ \E r \in RuleArgs, a \in AnchorArgs : move_rule(1, r, a)
    \/ move_select(1)
    \/ lock_row(1)
    \/ InsertSteps(1)
    \/ DeleteSteps(1)
    \/ \E c \in StoredChains(chains) : traverse(2, c)
    \/ traverse_execute(2)

SpecMove == InitMove /\ [][NextMove]_vars

InsertPcs == {"ins_chain", "ins_head", "ins_next", "ins_lock", "ins_relink", "ins_commit"}

\* move_rule has returned from delete_rule and not yet from insert_rule_after
BetweenDeleteAndInsert(p) == loc[p].op = "move" /\ pc[p] \in InsertPcs

\* C32: between the two steps of move_rule the committed tables, which a
\* traverse_chain on another connection reads, do not hold the moved rule,
\* and its chain is a well-formed list of the remaining rules in their order.
C32_MovedRuleAbsentBetweenSteps ==
    \A p \in clients :
        (BetweenDeleteAndInsert(p) /\ AllWellFormed(snap[p].chains, snap[p].rules))
            => /\ ~Exists(rules, loc[p].rule_id)
               /\ WellFormedChain(rules, loc[p].chain_id)
               /\ Order(rules, loc[p].chain_id)
                      = Without(Order(snap[p].rules, loc[p].chain_id), loc[p].rule_id)

\* traverse_chain on connection 2, called and answered between the two
\* steps of a move of connection 1, returned the chain without the moved rule
C32_Witness ==
    /\ BetweenDeleteAndInsert(1)
    /\ pc[2] = "idle"
    /\ res[2].op = "traverse"
    /\ res[2].status = "ok"
    /\ res[2].call.chain_id = loc[1].chain_id
    /\ snap[2].rules = rules
    /\ Exists(snap[1].rules, loc[1].rule_id)
    /\ res[2].rows = Without(Order(snap[1].rules, loc[1].chain_id), loc[1].rule_id)
    /\ res[2].rows # << >>


(* ------------------- imports of chains of several rules ----------------- *)
\* One client importing documents, one of them with a main chain of
\* ListLen rules, into an empty database.
ListDocs == {ListDoc(ListLen), DocB, DocNoMain}

InitImportList == EmptyStore /\ IdleClients({1}, MaxImports)

NextImportList ==
    \E p \in Clients :
        \/ \E doc \in ListDocs : import_yaml_to_db(p, doc)
        \/ ImportSteps(p)
        \/ statement_error(p)

SpecImportList == InitImportList /\ [][NextImportList]_vars

DocWithHash(h) == CHOOSE d \in ListDocs : ConfigHash(d) = h

\* the stored chain of version v with the name
ChainOf(cs, v, name) ==
    {c \in StoredChains(cs) : cs[c].config_version = v /\ cs[c].chain_name = name}

\* the stored chain holds the rules of the document's chain in document
\* order: the first has no prev, the last no next, every other rule's prev
\* is the rule before it, and traverse_chain returns them in that order
InDocumentOrder(rs, c, v, doc_rules) ==
    LET s == Order(rs, c)
    IN /\ WellFormedChain(rs, c)
       /\ Len(s) = Len(doc_rules)
       /\ TraverseRows(rs, c) = {s}
       /\ \A i \in DOMAIN s :
             /\ rs[s[i]].config_version = v
             /\ rs[s[i]].content = doc_rules[i].content
             /\ rs[s[i]].action = doc_rules[i].action
             /\ rs[s[i]].jump_to_chain = doc_rules[i].jump
             /\ rs[s[i]].prev_rule_id = IF i = 1 THEN NULL ELSE s[i - 1]
             /\ rs[s[i]].next_rule_id = IF i = Len(s) THEN NULL ELSE s[i + 1]

\* C33: in every committed state a stored version has one chain for every
\* chain of its document, each a well-formed list of the document's rules
\* in document order, and a version that is not stored has no chain and no
\* rule: the chains and rules are committed with the version row.
C33_ImportedChainsInDocumentOrder ==
    \A v \in VersionIds :
        IF v \in StoredVersions(versions)
        THEN LET doc == DocWithHash(versions[v].config_hash)
             IN /\ ChainNamesOf(chains, v) = ChainNames(doc)
                /\ Cardinality(RowsOf(Tables, v).chains) = Len(doc.chains)
                /\ Cardinality(RowsOf(Tables, v).rules) = CountRules(doc.chains)
                /\ \A k \in DOMAIN doc.chains :
                      \A c \in ChainOf(chains, v, doc.chains[k].name) :
                          InDocumentOrder(rules, c, v, doc.chains[k].rules)
        ELSE RowsOf(Tables, v) = NoRows

\* the document with the main chain of ListLen rules was imported as the
\* second version, after an import that failed behind its INSERTs
C33_Witness ==
    /\ StoredVersions(versions) = {1, 3}
    /\ versions[3].config_hash = ConfigHash(ListDoc(ListLen))
    /\ \E c \in ChainOf(chains, 3, "main") :
          /\ Len(Order(rules, c)) = ListLen
          /\ ListLen >= 2
          /\ InDocumentOrder(rules, c, 3, ListDoc(ListLen).chains[1].rules)


(* ------------------- update_rule_content, what it keeps ----------------- *)
\* the columns of a rule that place it: its list pointers, its chain and
\* its version
PlaceOf(row) ==
    [prev_rule_id |-> row.prev_rule_id, next_rule_id |-> row.next_rule_id,
     chain_id |-> row.chain_id, config_version |-> row.config_version]

\* C34: update_rule_content, whether it returned or raised, has changed no
\* rule's prev_rule_id, next_rule_id, chain or version, no row other than
\* the rule named, no chain and no version row, and traverse_chain returns
\* for every chain the rule ids it returned before the call.
C34_UpdateKeepsLinks ==
    \A p \in clients :
        Updated(p)
            => /\ chains = snap[p].chains
               /\ versions = snap[p].versions
               /\ \A r \in RuleIds :
                     /\ Exists(rules, r) <=> Exists(snap[p].rules, r)
                     /\ PlaceOf(rules[r]) = PlaceOf(snap[p].rules[r])
                     /\ r # res[p].call.rule_id => rules[r] = snap[p].rules[r]
               /\ \A c \in StoredChains(chains) :
                     TraverseRows(rules, c) = TraverseRows(snap[p].rules, c)

\* an update changed the content of the first rule of a chain of two, after
\* an update that raised
C34_Witness ==
    /\ Updated(1)
    /\ res[1].status = "ok"
    /\ failed # {}
    /\ rules[res[1].call.rule_id] # snap[1].rules[res[1].call.rule_id]
    /\ rules[res[1].call.rule_id].next_rule_id # NULL


(* -------------------- two concurrent inserts at the head ---------------- *)
\* C35: two insert_rule_after(main, None, .) calls on two connections that
\* both commit leave one rule of the chain with prev_rule_id NULL, and
\* traverse_chain returns both new rules.
C35_HeadInsertsSerialized ==
    (BothInserted(NULL, NULL) /\ res[1].status = "ok" /\ res[2].status = "ok")
        => /\ Cardinality(Heads(rules, MainChain)) = 1
           /\ InTraverse(res[1].val, MainChain)
           /\ InTraverse(res[2].val, MainChain)
           /\ \A s \in TraverseRows(rules, MainChain) :
                 {res[1].val, res[2].val} \subseteq SeqRange(s)

\* the same for two calls of which the second is made after the first has
\* returned
C35_HeadInsertsInTurn ==
    (BothInserted(NULL, NULL) /\ res[1].status = "ok" /\ res[2].status = "ok"
     /\ \E p, q \in clients : Exists(snap[q].rules, res[p].val))
        => /\ WellFormedChain(rules, MainChain)
           /\ InTraverse(res[1].val, MainChain)
           /\ InTraverse(res[2].val, MainChain)


(* ----------------------- consistency of the links ----------------------- *)
\* next_rule_id and prev_rule_id are inverse to each other, and name stored
\* rules only
LinksConsistent(rs) ==
    \A a \in DOMAIN rs :
        Exists(rs, a)
            => /\ rs[a].next_rule_id # NULL
                     => /\ Exists(rs, rs[a].next_rule_id)
                        /\ rs[rs[a].next_rule_id].prev_rule_id = a
               /\ rs[a].prev_rule_id # NULL
                     => /\ Exists(rs, rs[a].prev_rule_id)
                        /\ rs[rs[a].prev_rule_id].next_rule_id = a

\* C36: in every committed state a.next_rule_id = b if and only if
\* b.prev_rule_id = a for all stored rules a and b, and every prev_rule_id
\* and next_rule_id that is not NULL names a stored rule.
C36_LinksConsistent == LinksConsistent(rules)


(* ------------------------- links within one chain ----------------------- *)
\* the stored rules that a rule's prev_rule_id and next_rule_id name
Neighbours(rs, a) ==
    {b \in {rs[a].prev_rule_id, rs[a].next_rule_id} : Exists(rs, b)}

\* C37: in every committed state the rules that a rule's prev_rule_id and
\* next_rule_id name are rules of its own chain; insert_rule_after and
\* move_rule with an anchor of another chain commit no such link.
C37_LinksStayInChain ==
    \A a \in RuleIds :
        Exists(rules, a)
            => \A b \in Neighbours(rules, a) : rules[b].chain_id = rules[a].chain_id

\* the links of the rule table rs stay within the chains
InChainLinks(rs) ==
    \A a \in DOMAIN rs :
        Exists(rs, a) => \A b \in Neighbours(rs, a) : rs[b].chain_id = rs[a].chain_id

\* the anchor of the returned insert_rule_after or move_rule call was None,
\* no stored rule, or a rule of the chain the call was to put the rule in
AnchorOfTargetChain(p) ==
    LET old == snap[p].rules
        a == res[p].call.after_rule_id
    IN Exists(old, a)
          => \/ res[p].op = "insert" /\ old[a].chain_id = res[p].call.chain_id
             \/ /\ res[p].op = "move"
                /\ Exists(old, res[p].call.rule_id)
                      => old[a].chain_id = old[res[p].call.rule_id].chain_id

\* a call with such an anchor, made on a table whose links stay within the
\* chains, commits no link between chains
C37_NoLinkWithoutForeignAnchor ==
    \A p \in clients :
        (/\ pc[p] = "idle"
         /\ res[p].op \in {"insert", "move"}
         /\ InChainLinks(snap[p].rules)
         /\ AnchorOfTargetChain(p))
            => InChainLinks(rules)

(* ------------------ insert behind a rule that is deleted ---------------- *)
\* client i has returned from insert_rule_after(main, a, .) and client d
\* from delete_rule(r), r being the anchor or, in the stored chain
\* 1 -> 2 -> ... -> ConcLen, its successor
InsertedAndDeleted(i, d) ==
    /\ i # d
    /\ Done(i) /\ Done(d)
    /\ res[i].op = "insert" /\ res[d].op = "delete"
    /\ res[i].call.after_rule_id \in MainRules
    /\ res[d].call.rule_id - res[i].call.after_rule_id \in {0, 1}
    /\ res[d].call.rule_id \in MainRules

\* the rules of the stored chains, which the two calls started from
StoredRules == 1 .. CountRules(ListDoc(ConcLen).chains)

\* C38: after insert_rule_after(main, B, .) and delete_rule of B or of B's
\* successor, run on two connections, the chain is well-formed; an insert
\* that raised has left no row, an insert that returned has its rule linked
\* between stored rules, and no stored rule names the deleted rule.
C38_InsertBesideDelete ==
    \A i, d \in clients :
        InsertedAndDeleted(i, d)
            => /\ WellFormedChain(rules, MainChain)
               /\ LinksConsistent(rules)
               /\ res[i].status = "error"
                     => \A n \in RuleIds \ StoredRules : ~Exists(rules, n)
               /\ res[i].status = "ok"
                     => /\ Exists(rules, res[i].val)
                        /\ InTraverse(res[i].val, MainChain)
               /\ res[d].status = "ok"
                     => /\ ~Exists(rules, res[d].call.rule_id)
                        /\ Referencing(rules, res[d].call.rule_id) = {}

\* the same when the later of the two calls is made after the other has
\* returned
C38_InsertAndDeleteInTurn ==
    \A i, d \in clients :
        (/\ InsertedAndDeleted(i, d)
         /\ \/ snap[i].rules # snap[d].rules
            \/ res[i].status = "error"
            \/ res[d].status = "error")
            => /\ WellFormedChain(rules, MainChain)
               /\ LinksConsistent(rules)


(* ----------------- two concurrent imports of one document --------------- *)
\* both clients have returned from import_yaml_to_db of the same valid
\* document, which was not stored when either call was made
BothImportedNew ==
    /\ Done(1) /\ Done(2)
    /\ res[1].op = "import" /\ res[2].op = "import"
    /\ res[1].call.text = res[2].call.text
    /\ \E d \in ValidDocs : d.text = res[1].call.text
    /\ WasStored(1) = {} /\ WasStored(2) = {}

\* C39: after two concurrent imports of one new document at most one
\* version holds its hash; both calls returned that version, or one raised
\* and left no row.
C39_ConcurrentImportsOneVersion ==
    BothImportedNew
        => /\ Cardinality(VersionsWithHash(versions, res[1].call.text)) <= 1
           /\ \/ res[1].status = "ok" /\ res[2].status = "ok" /\ res[1].val = res[2].val
              \/ res[1].status = "error"
              \/ res[2].status = "error"

\* in every committed state no two versions hold the same hash
C39_HashesUnique ==
    \A v, w \in StoredVersions(versions) :
        versions[v].config_hash = versions[w].config_hash => v = w


(* -------------------------- DeadLetterManager --------------------------- *)
\* the dead_letter rows the runs start from, archived from yesterday's
\* partition when it was dropped: the payload of the first was encoded
\* twice, the payload of the second is an object
DeadJobs == {1, 2}
DeadPayload(i) == IF i = 1 THEN JsonString(i) ELSE JsonObject(i)
DeadRow(i) == [id |-> i, original_id |-> i, payload |-> DeadPayload(i),
               failed_at |-> Yesterday,
               archived_from_partition |-> PartitionName(Yesterday)]

\* job ids a caller passes: the ids of the stored rows and one of no row
JobArgs == DeadJobs \cup {Cardinality(DeadJobs) + 1}
\* the values of --older-than, in days: the rows that failed before now, and
\* the rows that failed more than two days ago
OlderThan == {0, 2}

\* a queue with today's partition, or one in which it has not been created
InitRetry ==
    /\ EmptyStore
    /\ Connections({}, 0)
    /\ InitAlerter
    /\ partitions \in {{Today}, {Yesterday}}
    /\ queue = {}
    /\ dead_letter = {DeadRow(i) : i \in DeadJobs}
    /\ queue_serial = [queue |-> Cardinality(DeadJobs) + 1,
                       dead_letter |-> Cardinality(DeadJobs) + 1,
                       payload |-> Cardinality(DeadJobs) + 1, events |-> 0, calls |-> 0]
    /\ share_lock = {}
    /\ dropper = IdleDropper
    /\ retrier = [c \in Retriers |-> IdleRetrier]
    /\ queue_tables = Partitioned
    /\ migrator = IdleMigrator

RetryStep(c, r) ==
    /\ retrier' = [retrier EXCEPT ![c] = r]
    /\ UNCHANGED << store_vars, alerter_vars, partitions, share_lock, dropper,
                    migrate_vars >>

\* the call raises: the caller closes the connection (cli.py 371-372 and
\* 402-403) and what the transaction did is rolled back
RetryRaise(c) ==
    RetryStep(c, [retrier[c] EXCEPT !.pc = "idle", !.inserted = {}, !.deleted = {},
                                    !.result = "error"])

\* dead_letter.py 136-141: a caller calls retry_job on its connection
RetryCall(c, job_id, dry_run) ==
    /\ retrier[c].pc = "idle"
    /\ retrier[c].left > 0
    /\ RetryStep(c, [IdleRetrier EXCEPT !.pc = "get", !.op = "retry_job",
                                        !.job_id = job_id, !.dry_run = dry_run,
                                        !.left = retrier[c].left - 1])
    /\ UNCHANGED << queue, dead_letter, queue_serial >>

\* dead_letter.py 106-134: the committed dead_letter row with the id, or NoJob
get_job(job_id) ==
    IF \E j \in dead_letter : j.id = job_id
    THEN CHOOSE j \in dead_letter : j.id = job_id
    ELSE NoJob

\* dead_letter.py 142-149: the row is read by a plain SELECT; no row
\* returns False, dry_run returns True with nothing written
RetryGet(c) ==
    /\ retrier[c].pc = "get"
    /\ LET job == get_job(retrier[c].job_id)
       IN IF job = NoJob
          THEN RetryStep(c, [retrier[c] EXCEPT !.pc = "idle", !.result = "false"])
          ELSE IF retrier[c].dry_run
          THEN RetryStep(c, [retrier[c] EXCEPT !.pc = "idle", !.job = job,
                                               !.result = "true"])
          ELSE RetryStep(c, [retrier[c] EXCEPT !.pc = "insert", !.job = job])
    /\ UNCHANGED << queue, dead_letter, queue_serial >>

\* dead_letter.py 128 and 159: job["payload"] is the value psycopg2 made of
\* the jsonb column, a dict for an object and a str for a string, and it is
\* passed back as a parameter.  psycopg2 has no adapter for dict (src/
\* registers none), so execute raises before the statement is sent; a str
\* is sent as a quoted literal, which the jsonb column reads as JSON text.
AsParameter(payload) ==
    CASE payload.json = "object" -> [error |-> "cannot_adapt", value |-> JsonNull]
      [] payload.json = "string" -> [error |-> "", value |-> JsonObject(payload.n)]
      [] OTHER -> [error |-> "not_null", value |-> JsonNull]

\* dead_letter.py 151-161: the payload is inserted as a new pending job;
\* created_at = NOW() puts the row into today's partition, for which the
\* statement waits while another transaction holds a lock on it; a row the
\* server refuses (NULL payload, no partition for today) has taken its id
\* from the sequence by then
RetryInsert(c) ==
    /\ retrier[c].pc = "insert"
    /\ LET parameter == AsParameter(retrier[c].job.payload)
       IN IF parameter.error = "cannot_adapt"
          THEN /\ RetryRaise(c)
               /\ UNCHANGED queue_serial
          ELSE IF parameter.error = "not_null" \/ NoPartitionForToday
          THEN /\ RetryRaise(c)
               /\ queue_serial' = [queue_serial EXCEPT !.queue = @ + 1]
          ELSE /\ Today \notin share_lock
               /\ ~QueueLocked
               /\ queue_serial' = [queue_serial EXCEPT !.queue = @ + 1]
               /\ RetryStep(c, [retrier[c] EXCEPT
                     !.pc = "delete",
                     !.inserted = @ \cup {[id |-> queue_serial.queue,
                                           payload |-> parameter.value,
                                           status |-> "pending",
                                           created_at |-> Today]}])
    /\ UNCHANGED << queue, dead_letter >>

\* the dead_letter rows that open transactions of other connections have
\* deleted: their row locks are held until those commit
DeletedByOthers(c) == UNION {retrier[o].deleted : o \in Retriers \ {c}}

\* variant: the DELETE that finds no row ends the call without a commit
RetryDelete_Checked(c) ==
    /\ retrier[c].pc = "delete"
    /\ retrier[c].job_id \notin DeletedByOthers(c)
    /\ IF \E j \in dead_letter : j.id = retrier[c].job_id
       THEN RetryStep(c, [retrier[c] EXCEPT !.pc = "commit",
                                            !.deleted = @ \cup {retrier[c].job_id}])
       ELSE RetryStep(c, [retrier[c] EXCEPT !.pc = "idle", !.inserted = {},
                                            !.result = "false"])
    /\ UNCHANGED << queue, dead_letter, queue_serial >>

\* dead_letter.py 163-164: DELETE FROM dead_letter WHERE id = %s waits for
\* the row lock of a delete that is not committed, and deletes the row if
\* it is still stored; the number of rows deleted is not looked at
RetryDelete(c) ==
    /\ retrier[c].pc = "delete"
    /\ retrier[c].job_id \notin DeletedByOthers(c)
    /\ RetryStep(c, [retrier[c] EXCEPT
          !.pc = "commit",
          !.deleted = IF \E j \in dead_letter : j.id = retrier[c].job_id
                      THEN @ \cup {retrier[c].job_id} ELSE @])
    /\ UNCHANGED << queue, dead_letter, queue_serial >>

\* dead_letter.py 166-173: conn.commit() and return True
RetryCommit(c) ==
    /\ retrier[c].pc = "commit"
    /\ queue' = queue \cup retrier[c].inserted
    /\ dead_letter' = {j \in dead_letter : j.id \notin retrier[c].deleted}
    /\ RetryStep(c, [retrier[c] EXCEPT !.pc = "idle", !.inserted = {}, !.deleted = {},
                                       !.result = "true"])
    /\ UNCHANGED queue_serial

\* cli.py 375-400, dead_letter.py 195-218: a caller calls purge on its
\* connection
PurgeCall(c, older_than, dry_run) ==
    /\ retrier[c].pc = "idle"
    /\ retrier[c].left > 0
    /\ RetryStep(c, [IdleRetrier EXCEPT !.pc = "purge", !.op = "purge",
                                        !.older_than = older_than,
                                        !.dry_run = dry_run,
                                        !.left = retrier[c].left - 1])
    /\ UNCHANGED << queue, dead_letter, queue_serial >>

\* dead_letter.py 210-211: the rows with failed_at < now - older_than, for
\* whole days and a row that failed earlier in its day than it is now
PurgeRows(older_than) ==
    {j \in dead_letter : DateNo(j.failed_at) <= 0 - older_than}

\* dead_letter.py 220-228: a dry run counts the rows and returns; else
\* DELETE FROM dead_letter WHERE failed_at < cutoff, which waits for the row
\* locks of deletes that are not committed and takes the rows still stored
Purge(c) ==
    /\ retrier[c].pc = "purge"
    /\ LET rows == PurgeRows(retrier[c].older_than)
       IN IF retrier[c].dry_run
          THEN RetryStep(c, [retrier[c] EXCEPT !.pc = "idle", !.result = "count",
                                               !.count = Cardinality(rows)])
          ELSE /\ \A j \in rows : j.id \notin DeletedByOthers(c)
               /\ RetryStep(c, [retrier[c] EXCEPT
                     !.pc = "purge_commit",
                     !.deleted = {j.id : j \in rows},
                     !.count = Cardinality(rows)])
    /\ UNCHANGED << queue, dead_letter, queue_serial >>

\* dead_letter.py 230-232: conn.commit() and return count
PurgeCommit(c) ==
    /\ retrier[c].pc = "purge_commit"
    /\ dead_letter' = {j \in dead_letter : j.id \notin retrier[c].deleted}
    /\ RetryStep(c, [retrier[c] EXCEPT !.pc = "idle", !.deleted = {},
                                       !.result = "count"])
    /\ UNCHANGED << queue, queue_serial >>

\* a statement of retry_job or purge raises (the connection is lost, the
\* statement is cancelled): nothing of the transaction is committed
RetryFails(c) ==
    /\ retrier[c].pc \in {"get", "insert", "delete", "commit", "purge", "purge_commit"}
    /\ RetryRaise(c)
    /\ UNCHANGED << queue, dead_letter, queue_serial >>

NextRetry ==
    \E c \in Retriers :
        \/ \E job_id \in JobArgs, dry_run \in BOOLEAN : RetryCall(c, job_id, dry_run)
        \/ RetryGet(c)
        \/ RetryInsert(c)
        \/ RetryDelete(c)
        \/ RetryCommit(c)
        \/ \E older_than \in OlderThan, dry_run \in BOOLEAN :
              PurgeCall(c, older_than, dry_run)
        \/ Purge(c)
        \/ PurgeCommit(c)
        \/ RetryFails(c)

SpecRetry == InitRetry /\ [][NextRetry]_vars

\* the pending queue rows that hold the payload of the dead-letter job i
RetriedRows(i) == {r \in queue : r.payload.n = i /\ r.status = "pending"}

\* C40: in every committed state a dead-letter job that is still in
\* dead_letter has no queue row made from it and no job has more than one,
\* whatever retry_job calls were made for it and however they interleave; a
\* retry_job call that returned True without dry_run has left the job gone
\* from dead_letter with exactly one pending queue row.
C40_RetriedExactlyOnce ==
    /\ \A i \in DeadJobs :
          /\ DeadRow(i) \in dead_letter => RetriedRows(i) = {}
          /\ Cardinality(RetriedRows(i)) <= 1
    /\ \A c \in Retriers :
          (/\ retrier[c].pc = "idle" /\ retrier[c].op = "retry_job"
           /\ retrier[c].result = "true" /\ ~retrier[c].dry_run)
              => /\ DeadRow(retrier[c].job_id) \notin dead_letter
                 /\ Cardinality(RetriedRows(retrier[c].job_id)) = 1

\* a step of a retry_job or purge call with dry_run changes neither table
DryRunChangesNothing ==
    \A c \in Retriers :
        (retrier[c].dry_run /\ retrier'[c] # retrier[c])
            => queue' = queue /\ dead_letter' = dead_letter

C40_DryRunChangesNothing == [][DryRunChangesNothing]_vars

====
